---- MODULE Spec2Model ----
(***************************************************************************)
(* Deal risk scoring engine (src/src/risk_scoring_engine.py).              *)
(*                                                                         *)
(* The engine object is the state: df, feature_names, scaler, model,       *)
(* feature_importance, and the two output files.  Each public method is    *)
(* one action.  Two callers are modelled: main(), which chains the six     *)
(* methods once each and stops at the first exception, and a free caller   *)
(* that invokes the public methods of one engine in any order and          *)
(* survives their exceptions.                                              *)
(*                                                                         *)
(* Numbers.  A probability p is the integer numerator P of p = P/ProbDen   *)
(* (ProbDen a power of two, so that 100*p*10 is exact in binary floating   *)
(* point and numpy's round-half-even sees exactly the ties seen here).     *)
(* A risk score is held in tenths: 331 is the score 33.1.                  *)
(*                                                                         *)
(* Library code (pandas, numpy, scikit-learn) is modelled by what the      *)
(* calls in the source do: train_test_split's stratified allocation is     *)
(* computed as StratifiedShuffleSplit computes it on the Mersenne Twister  *)
(* stream of RandomState(42), and the fitted classifier is tabulated per   *)
(* training problem as lbfgs leaves it, for each of the two objectives the *)
(* scikit-learn releases hand to lbfgs.                                    *)
(***************************************************************************)
EXTENDS Integers, Sequences, FiniteSets, TLC

\* ------------------------------------------------------------------ bounds
MaxN == 8          \* most deals in the input file
MaxLost == 3       \* most Lost deals in the input file
MaxLong == 1       \* most deals whose sales cycle is the long one
ProbBits == 12     \* probabilities are multiples of 1/2^ProbBits
MaxAmount == 3     \* largest deal_amount in the input file
FeatN == 6         \* deals in the files that vary the descriptive columns
MaxListed == 26    \* most deals in a scored table that is listed

\* ------------------------------------------------------- program constants
TestPct == 20      \* test_size=0.2, in percent
Bin1 == 330        \* pd.cut bin edge 33, in tenths
Bin2 == 660        \* pd.cut bin edge 66, in tenths
Bin3 == 1000       \* pd.cut bin edge 100, in tenths
MaxIter == 1000    \* LogisticRegression(max_iter=1000)

ProbDen == 2 ^ ProbBits

VARIABLES
    caller,             \* "main", "rescore" or "free": who drives the engine
    pc,                 \* a scripted caller's next method, "done" or "failed"
    csv,                \* the input file: a sequence of deals
    schema,             \* the input file: its columns, and whether its dates parse
    lbfgs_need,         \* the iterations lbfgs needs at least on the data (0: the file's own)
    df,                 \* self.df
    feature_names,      \* self.feature_names
    scaler,             \* self.scaler
    model,              \* self.model
    feature_importance, \* self.feature_importance (TRUE once filled)
    csv_file,           \* outputs/risk_scores.csv: <<>> when absent, else <<rows>>
    report_file,        \* outputs/risk_scoring_report.md exists
    mt_stream,          \* history: the outputs the latest split drew (-1: none yet)
    lbfgs_result,       \* history: the latest fit and the objectives it can be of (<<>>: none)
    raised,             \* the last call ended in an exception
    completed,          \* history: methods that have returned normally
    calls,              \* history, scripted callers: the methods in return order
    split,              \* history: the latest partition of train_test_split
    prev_split,         \* history: the partition before that
    probe,              \* pure-function harness: one probability and its score
    board               \* listing harness: a scored table and the lists made of it

vars == <<caller, pc, csv, schema, lbfgs_need, df, feature_names, scaler, model, feature_importance,
          csv_file, report_file, mt_stream, lbfgs_result, raised, completed,
          calls, split, prev_split, probe, board>>

\* ----------------------------------------------------------------- helpers
Range(s) == {s[i] : i \in DOMAIN s}

Min(a, b) == IF a <= b THEN a ELSE b

Abs(a) == IF a < 0 THEN -a ELSE a

RECURSIVE SumOver(_, _)
SumOver(f, S) ==
    IF S = {} THEN 0
    ELSE LET i == CHOOSE j \in S : TRUE IN f[i] + SumOver(f, S \ {i})

\* the indices of S in increasing order
RECURSIVE SortedSeq(_)
SortedSeq(S) ==
    IF S = {} THEN <<>>
    ELSE LET m == CHOOSE x \in S : \A y \in S : x <= y
         IN <<m>> \o SortedSeq(S \ {m})

CeilDiv(a, b) == (a + b - 1) \div b

\* the sequence <<Op(1), ..., Op(n)>>
RECURSIVE SeqOf(_, _)
SeqOf(Op(_), n) == IF n = 0 THEN <<>> ELSE Append(SeqOf(Op, n - 1), Op(n))

\* the sum of the entries of a sequence
RECURSIVE SumSeq(_)
SumSeq(q) == IF q = <<>> THEN 0 ELSE Head(q) + SumSeq(Tail(q))

\* -------------------------------------------------------------- input data
Outcomes == {"Won", "Lost"}

\* sales_cycle_days of an ordinary deal and of a slow one
CycleVals == {1, 2}

ShortCycle == CHOOSE c \in CycleVals : \A d \in CycleVals : c <= d

LongCycle == CHOOSE c \in CycleVals : \A d \in CycleVals : d <= c

NaN == -(2 ^ 10)   \* a missing numeric cell

\* the deal stages engineer_features knows, in their order
Stages == <<"Demo", "Qualified", "Proposal", "Negotiation", "Closed">>

Deal == [outcome : Outcomes, sales_cycle_days : CycleVals \cup {NaN},
         industry : {"Tech", "Retail"}, region : {"East", "West"},
         product_type : {"Enterprise", "Core"}, lead_source : {"Inbound"},
         sales_rep_id : 1..MaxN, deal_stage : Range(Stages) \cup {"Other"},
         deal_amount : 1..MaxAmount]

\* the file of n deals whose last k are Lost, whose first j are slow and whose
\* last g are Retail deals; the stages cycle through Stages, the amounts
\* through 1..MaxAmount, the first two deals are Enterprise deals and each
\* rep has two deals.  In a dirty file the first deal has a stage outside
\* Stages and an empty sales_cycle_days cell.
CsvWith(n, k, j, g, dirty) ==
    [i \in 1..n |->
        [outcome |-> IF i > n - k THEN "Lost" ELSE "Won",
         sales_cycle_days |-> IF dirty /\ i = 1 THEN NaN
                              ELSE IF i <= j THEN LongCycle ELSE ShortCycle,
         industry |-> IF i > n - g THEN "Retail" ELSE "Tech",
         region |-> IF i % 2 = 0 THEN "East" ELSE "West",
         product_type |-> IF i <= 2 THEN "Enterprise" ELSE "Core",
         lead_source |-> "Inbound",
         sales_rep_id |-> (i + 1) \div 2,
         deal_stage |-> IF dirty /\ i = 1 THEN "Other"
                        ELSE Stages[((i - 1) % Len(Stages)) + 1],
         deal_amount |-> 1 + (i % MaxAmount)]]

\* the file of n deals whose last k are Lost and whose first j are slow
CsvOf(n, k, j) == CsvWith(n, k, j, 0, FALSE)

\* the input files considered: 1..MaxN deals, few Lost, few slow
CsvFamily ==
    {CsvOf(n, k, j) : n \in 1..MaxN, k \in 0..MaxLost, j \in 0..MaxLong}

\* input files that vary the descriptive columns: FeatN deals, two or
\* MaxLost of them Lost, up to MaxLost Retail deals, clean or dirty
FeatureFamily ==
    {CsvWith(FeatN, k, MaxLong, g, dirty) :
        k \in {2, MaxLost}, g \in 0..MaxLost, dirty \in BOOLEAN}

\* ------------------------------------------------------------------ scorer
\* (risk_probabilities * 100).round(1), in tenths: numpy rounds x to one
\* decimal as rint(x * 10) / 10, and rint rounds a tie to the even integer.
RoundHalfEven(num, den) ==
    LET q == num \div den
        r == num % den
    IN IF 2 * r < den THEN q
       ELSE IF 2 * r > den THEN q + 1
       ELSE IF q % 2 = 0 THEN q ELSE q + 1

\* a variant that cuts the score off after one decimal instead of rounding
RiskScoreTruncated(P) == (P * 100 * 10) \div ProbDen

\* a variant that scores the probability of the other class, column 0 of
\* predict_proba
RiskScoreOfWon(P) == RoundHalfEven((ProbDen - P) * 100 * 10, ProbDen)

RiskScore(P) == RoundHalfEven(P * 100 * 10, ProbDen)

\* numpy searchsorted(bins, x, side='left'): how many bin edges are below x
SearchSortedLeft(bins, x) == Cardinality({k \in DOMAIN bins : bins[k] < x})

\* pd.cut(score, bins=[0, 33, 66, 100], labels=[Low, Medium, High],
\* include_lowest=True): right-closed bins, the lowest edge included, and
\* NaN for a value outside the bins.
CutBins == <<0, Bin1, Bin2, Bin3>>

CutLabels == <<"Low", "Medium", "High">>

\* a variant with left-closed bins, as pd.cut(..., right=False) would make
RiskCategoryLeftClosed(score) ==
    IF score < 0 \/ score > Bin3 THEN "NaN"
    ELSE IF score < Bin1 THEN "Low"
    ELSE IF score < Bin2 THEN "Medium"
    ELSE "High"

\* a variant whose bins stop at 66: bins=[0, 33, 66] with two labels
RiskCategoryTwoBins(score) ==
    IF score < 0 \/ score > Bin2 THEN "NaN"
    ELSE IF score <= Bin1 THEN "Low"
    ELSE "Medium"

RiskCategory(score) ==
    LET ids0 == SearchSortedLeft(CutBins, score)
        ids == IF score = CutBins[1] THEN 1 ELSE ids0
    IN IF ids = 0 \/ ids = Len(CutBins) THEN "NaN" ELSE CutLabels[ids]

\* the feature columns engineer_features adds, in the order of feature_names
FeatureNames == <<"sales_cycle_days_norm", "deal_amount_log", "industry_win_rate",
                  "region_win_rate", "product_win_rate", "lead_source_win_rate",
                  "rep_win_rate", "deal_size_vs_segment", "deal_stage_encoded",
                  "is_enterprise">>

\* ----------------------------------------------------------- feature units
\* Fractional features are held exactly, as integer multiples of a unit:
\* a win rate in RateUnit-ths, a segment ratio in RatioUnit-ths.
RECURSIVE Gcd(_, _)
Gcd(a, b) == IF b = 0 THEN a ELSE Gcd(b, a % b)

\* the least common multiple of 1..n
RECURSIVE LcmUpTo(_)
LcmUpTo(n) == IF n <= 1 THEN 1 ELSE (LcmUpTo(n - 1) * n) \div Gcd(LcmUpTo(n - 1), n)

RateUnit == LcmUpTo(MaxN)

RatioUnit == LcmUpTo(2 * MaxAmount)

\* 1000 * ln(x) to the nearest integer, for x = 1..9
LnMilli == <<0, 693, 1099, 1386, 1609, 1792, 1946, 2079, 2197>>

\* the unit each feature column is held in, in the order of feature_names:
\* a column's float value is its integer over its unit
FeatureUnit == <<1, 1000, RateUnit, RateUnit, RateUnit, RateUnit, RateUnit,
                 RatioUnit, 1, 1>>

\* ------------------------------------------------------------------ scaler
\* StandardScaler: the fitted state is the sample count with, per feature
\* (by position, as in the arrays mean_ and var_), the sums that give
\* mean_ = sum/n and var_ = sumsq/n - mean_^2 exactly.
UnfittedScaler ==
    [fitted |-> FALSE, n |-> 0,
     sum   |-> SeqOf(LAMBDA k : 0, Len(FeatureNames)),
     sumsq |-> SeqOf(LAMBDA k : 0, Len(FeatureNames))]

\* the sum of col[i]^e over the first k of the rows
RECURSIVE SumPow(_, _, _, _)
SumPow(col, e, rows, k) ==
    IF k = 0 THEN 0 ELSE col[rows[k]] ^ e + SumPow(col, e, rows, k - 1)

\* StandardScaler.fit on the rows `idx` of the feature matrix X
ScalerFit(X, idx) ==
    LET rows == SortedSeq(idx)
    IN [fitted |-> TRUE,
        n      |-> Len(rows),
        sum    |-> SeqOf(LAMBDA k : SumPow(X[k], 1, rows, Len(rows)), Len(X)),
        sumsq  |-> SeqOf(LAMBDA k : SumPow(X[k], 2, rows, Len(rows)), Len(X))]

\* StandardScaler.transform of one row x: per feature (v - mean_) / scale_,
\* kept exact as num / sqrt(den2).  The column's unit cancels between v - mean_
\* and scale_; a zero variance leaves scale_ = 1, and the unit stays.
ScalerTransform(s, x) ==
    [k \in DOMAIN x |->
        LET d == s.n * s.sumsq[k] - s.sum[k] * s.sum[k]
        IN [num  |-> s.n * x[k] - s.sum[k],
            den2 |-> IF d = 0 THEN (s.n * FeatureUnit[k]) ^ 2 ELSE d]]

\* -------------------------------------------------------------- classifier
\* predict_proba returns float64; the fitted probabilities are tabulated to
\* five decimals, in units of 1/ProbUnit
ProbUnit == 100000

\* A float probability at the model's resolution: the multiple of 1/ProbDen
\* nearest to p5/ProbUnit that lies in the same tenth of a score and on the
\* same side of 1/2 as the float does.
FloatOnGrid(p5) ==
    LET near == (p5 * ProbDen + ProbUnit \div 2) \div ProbUnit
        tenth == RoundHalfEven(p5 * 100 * 10, ProbUnit)
        Same(P) == /\ RoundHalfEven(P * 100 * 10, ProbDen) = tenth
                   /\ (2 * P > ProbDen) = (2 * p5 > ProbUnit)
        Off(P) == Abs(P * ProbUnit - p5 * ProbDen)
    IN CHOOSE P \in (near - 1)..(near + 1) :
          /\ Same(P)
          /\ \A Q \in (near - 1)..(near + 1) :
                Same(Q) => Off(P) < Off(Q) \/ (Off(P) = Off(Q) /\ P <= Q)

\* What identifies an input file of the families considered: the number of
\* deals, of Lost deals, of slow deals and of Retail deals, whether the first
\* deal has an unknown stage, which deal (0: none) has a negative
\* sales_cycle_days, and the largest deal_amount.
FileKey(file) ==
    <<Len(file),
      Cardinality({i \in DOMAIN file : file[i].outcome = "Lost"}),
      Cardinality({i \in DOMAIN file : file[i].sales_cycle_days = LongCycle}),
      Cardinality({i \in DOMAIN file : file[i].industry = "Retail"}),
      IF file[1].deal_stage = "Other" THEN 1 ELSE 0,
      IF \E i \in DOMAIN file : file[i].sales_cycle_days \in (NaN + 1)..(-1)
      THEN CHOOSE i \in DOMAIN file : file[i].sales_cycle_days \in (NaN + 1)..(-1)
      ELSE 0,
      CHOOSE a \in {file[i].deal_amount : i \in DOMAIN file} :
          \A i \in DOMAIN file : file[i].deal_amount <= a>>

\* What LogisticRegression hands to lbfgs depends on the scikit-learn release
\* installed (the repository pins none): the weighted loss summed over the
\* training rows plus |coef|^2 / 2C before release 1.4, that objective divided
\* by the sum of the weights from 1.4 on.  Both have the same minimiser; lbfgs
\* stops short of it, where the largest gradient component is at most
\* tol = 1e-4, which the averaged objective reaches earlier.
Objectives == {"summed", "averaged"}

\* LogisticRegression(random_state=42, max_iter=1000,
\* class_weight='balanced').fit(X_train_scaled, y_train), tabulated: for each
\* input file on which the fit is reached, the training rows and, for each
\* objective, n_iter_ and, per deal of the file, predict_proba[:, 1] of the
\* fitted classifier on the deal's scaled features, in units of 1/ProbUnit.
\* The values are those of the iterate at which L-BFGS-B (ten corrections,
\* the line search of More and Thuente, started from zero coefficients) first
\* meets the gradient tolerance on the class-weighted logistic loss with the
\* L2 penalty of C = 1 on the coefficients, computed on the features
\* engineer_features makes of the file, scaled by the mean and standard
\* deviation of the training rows.
FitTable ==
    { [key |-> <<6, 2, 0, 0, 0, 0, 3>>, train |-> {1, 2, 4, 6},
       summed   |-> [n_iter |-> 9, p |-> <<17383, 5448, 53487, 15030, 11506, 87381>>],
       averaged |-> [n_iter |-> 8, p |-> <<17387, 5447, 53496, 15028, 11499, 87385>>]],
      [key |-> <<6, 2, 0, 0, 0, 0, 4>>, train |-> {1, 2, 4, 6},
       summed   |-> [n_iter |-> 8, p |-> <<12269, 17479, 59466, 12861, 53441, 85797>>],
       averaged |-> [n_iter |-> 7, p |-> <<12272, 17487, 59481, 12862, 53447, 85800>>]],
      [key |-> <<6, 2, 0, 0, 0, 1, 3>>, train |-> {1, 2, 4, 6},
       summed   |-> [n_iter |-> 9, p |-> <<13947, 6641, 55499, 15644, 11020, 87923>>],
       averaged |-> [n_iter |-> 8, p |-> <<13946, 6639, 55503, 15645, 11021, 87924>>]],
      [key |-> <<6, 2, 0, 0, 0, 1, 4>>, train |-> {1, 2, 4, 6},
       summed   |-> [n_iter |-> 8, p |-> <<9936, 18714, 59318, 13366, 53130, 85994>>],
       averaged |-> [n_iter |-> 7, p |-> <<9937, 18710, 59311, 13365, 53128, 85995>>]],
      [key |-> <<6, 2, 0, 0, 1, 0, 3>>, train |-> {1, 2, 4, 6},
       summed   |-> [n_iter |-> 9, p |-> <<14082, 6239, 58088, 17415, 13269, 87421>>],
       averaged |-> [n_iter |-> 8, p |-> <<14069, 6236, 58084, 17415, 13274, 87421>>]],
      [key |-> <<6, 2, 0, 0, 1, 0, 4>>, train |-> {1, 2, 4, 6},
       summed   |-> [n_iter |-> 8, p |-> <<10036, 18758, 62985, 14658, 60861, 85516>>],
       averaged |-> [n_iter |-> 7, p |-> <<10037, 18750, 62973, 14654, 60853, 85515>>]],
      [key |-> <<6, 2, 0, 1, 1, 0, 3>>, train |-> {1, 2, 4, 6},
       summed   |-> [n_iter |-> 9, p |-> <<9799, 6925, 31278, 17539, 29202, 88579>>],
       averaged |-> [n_iter |-> 8, p |-> <<9797, 6929, 31244, 17530, 29210, 88576>>]],
      [key |-> <<6, 2, 0, 1, 1, 0, 4>>, train |-> {1, 2, 4, 6},
       summed   |-> [n_iter |-> 9, p |-> <<8784, 14107, 48169, 13028, 47554, 88028>>],
       averaged |-> [n_iter |-> 8, p |-> <<8783, 14112, 48186, 13029, 47561, 88029>>]],
      [key |-> <<6, 2, 0, 2, 1, 0, 3>>, train |-> {1, 2, 4, 6},
       summed   |-> [n_iter |-> 9, p |-> <<10989, 5677, 40917, 13562, 39238, 89922>>],
       averaged |-> [n_iter |-> 9, p |-> <<10989, 5677, 40917, 13562, 39238, 89922>>]],
      [key |-> <<6, 2, 0, 2, 1, 0, 4>>, train |-> {1, 2, 4, 6},
       summed   |-> [n_iter |-> 9, p |-> <<8445, 14498, 45672, 11690, 72640, 88458>>],
       averaged |-> [n_iter |-> 8, p |-> <<8445, 14511, 45697, 11689, 72644, 88461>>]],
      [key |-> <<6, 2, 0, 3, 1, 0, 3>>, train |-> {1, 2, 4, 6},
       summed   |-> [n_iter |-> 10, p |-> <<11585, 4225, 28926, 20564, 17373, 87876>>],
       averaged |-> [n_iter |-> 8, p |-> <<11601, 4233, 28942, 20575, 17386, 87877>>]],
      [key |-> <<6, 2, 0, 3, 1, 0, 4>>, train |-> {1, 2, 4, 6},
       summed   |-> [n_iter |-> 9, p |-> <<7888, 14985, 33839, 14885, 60714, 87413>>],
       averaged |-> [n_iter |-> 8, p |-> <<7888, 14983, 33834, 14879, 60707, 87414>>]],
      [key |-> <<6, 2, 0, 4, 1, 0, 3>>, train |-> {1, 2, 4, 6},
       summed   |-> [n_iter |-> 9, p |-> <<12510, 5195, 59643, 18668, 13808, 87876>>],
       averaged |-> [n_iter |-> 8, p |-> <<12518, 5196, 59657, 18680, 13814, 87875>>]],
      [key |-> <<6, 2, 0, 4, 1, 0, 4>>, train |-> {1, 2, 4, 6},
       summed   |-> [n_iter |-> 9, p |-> <<8566, 15684, 67606, 16101, 61465, 86549>>],
       averaged |-> [n_iter |-> 8, p |-> <<8565, 15680, 67601, 16098, 61461, 86549>>]],
      [key |-> <<6, 2, 1, 0, 0, 0, 3>>, train |-> {1, 2, 4, 6},
       summed   |-> [n_iter |-> 9, p |-> <<13947, 6641, 55499, 15644, 11020, 87923>>],
       averaged |-> [n_iter |-> 8, p |-> <<13946, 6639, 55503, 15645, 11021, 87924>>]],
      [key |-> <<6, 2, 1, 0, 0, 0, 4>>, train |-> {1, 2, 4, 6},
       summed   |-> [n_iter |-> 8, p |-> <<9936, 18714, 59318, 13366, 53130, 85994>>],
       averaged |-> [n_iter |-> 7, p |-> <<9937, 18710, 59311, 13365, 53128, 85995>>]],
      [key |-> <<6, 2, 1, 0, 0, 1, 3>>, train |-> {1, 2, 4, 6},
       summed   |-> [n_iter |-> 9, p |-> <<15180, 6665, 54547, 15156, 10971, 87667>>],
       averaged |-> [n_iter |-> 8, p |-> <<15185, 6666, 54552, 15158, 10972, 87668>>]],
      [key |-> <<6, 2, 1, 0, 0, 1, 4>>, train |-> {1, 2, 4, 6},
       summed   |-> [n_iter |-> 8, p |-> <<11730, 17946, 59183, 12925, 53312, 85799>>],
       averaged |-> [n_iter |-> 7, p |-> <<11733, 17940, 59177, 12925, 53310, 85801>>]],
      [key |-> <<6, 2, 1, 0, 0, 2, 3>>, train |-> {1, 2, 4, 6},
       summed   |-> [n_iter |-> 9, p |-> <<17016, 5770, 53600, 14980, 11355, 87411>>],
       averaged |-> [n_iter |-> 8, p |-> <<17023, 5771, 53599, 14978, 11351, 87411>>]],
      [key |-> <<6, 2, 1, 0, 0, 2, 4>>, train |-> {1, 2, 4, 6},
       summed   |-> [n_iter |-> 8, p |-> <<13696, 15600, 61047, 12869, 53967, 85945>>],
       averaged |-> [n_iter |-> 7, p |-> <<13697, 15607, 61055, 12869, 53970, 85948>>]],
      [key |-> <<6, 2, 1, 0, 1, 0, 3>>, train |-> {1, 2, 4, 6},
       summed   |-> [n_iter |-> 9, p |-> <<16157, 5978, 56786, 16805, 13447, 87021>>],
       averaged |-> [n_iter |-> 8, p |-> <<16162, 5979, 56790, 16808, 13448, 87022>>]],
      [key |-> <<6, 2, 1, 0, 1, 0, 4>>, train |-> {1, 2, 4, 6},
       summed   |-> [n_iter |-> 8, p |-> <<12842, 16961, 63703, 14171, 61597, 85342>>],
       averaged |-> [n_iter |-> 7, p |-> <<12848, 16964, 63700, 14169, 61590, 85340>>]],
      [key |-> <<6, 2, 1, 1, 0, 0, 3>>, train |-> {1, 2, 4, 6},
       summed   |-> [n_iter |-> 9, p |-> <<9759, 7296, 30579, 15878, 24148, 89021>>],
       averaged |-> [n_iter |-> 9, p |-> <<9759, 7296, 30579, 15878, 24148, 89021>>]],
      [key |-> <<6, 2, 1, 1, 0, 0, 4>>, train |-> {1, 2, 4, 6},
       summed   |-> [n_iter |-> 9, p |-> <<8750, 14159, 44749, 12012, 40996, 88362>>],
       averaged |-> [n_iter |-> 9, p |-> <<8750, 14159, 44749, 12012, 40996, 88362>>]],
      [key |-> <<6, 2, 1, 1, 1, 0, 3>>, train |-> {1, 2, 4, 6},
       summed   |-> [n_iter |-> 9, p |-> <<11098, 6691, 29392, 17031, 30028, 88395>>],
       averaged |-> [n_iter |-> 8, p |-> <<11096, 6693, 29395, 17038, 30041, 88392>>]],
      [key |-> <<6, 2, 1, 1, 1, 0, 4>>, train |-> {1, 2, 4, 6},
       summed   |-> [n_iter |-> 8, p |-> <<10766, 12979, 48901, 12595, 48028, 87888>>],
       averaged |-> [n_iter |-> 8, p |-> <<10766, 12979, 48901, 12595, 48028, 87888>>]],
      [key |-> <<6, 2, 1, 2, 0, 0, 3>>, train |-> {1, 2, 4, 6},
       summed   |-> [n_iter |-> 10, p |-> <<10990, 5960, 39390, 12395, 33824, 90219>>],
       averaged |-> [n_iter |-> 10, p |-> <<10990, 5960, 39390, 12395, 33824, 90219>>]],
      [key |-> <<6, 2, 1, 2, 0, 0, 4>>, train |-> {1, 2, 4, 6},
       summed   |-> [n_iter |-> 10, p |-> <<8416, 14554, 43046, 10797, 66903, 88744>>],
       averaged |-> [n_iter |-> 9, p |-> <<8416, 14558, 43055, 10799, 66908, 88745>>]],
      [key |-> <<6, 2, 1, 2, 1, 0, 3>>, train |-> {1, 2, 4, 6},
       summed   |-> [n_iter |-> 9, p |-> <<12447, 5439, 39646, 13037, 39446, 89690>>],
       averaged |-> [n_iter |-> 9, p |-> <<12447, 5439, 39646, 13037, 39446, 89690>>]],
      [key |-> <<6, 2, 1, 2, 1, 0, 4>>, train |-> {1, 2, 4, 6},
       summed   |-> [n_iter |-> 9, p |-> <<10403, 13279, 45822, 11305, 73083, 88338>>],
       averaged |-> [n_iter |-> 8, p |-> <<10398, 13281, 45830, 11310, 73092, 88338>>]],
      [key |-> <<6, 2, 1, 3, 0, 0, 3>>, train |-> {1, 2, 4, 6},
       summed   |-> [n_iter |-> 9, p |-> <<11442, 4618, 27779, 18581, 14266, 88453>>],
       averaged |-> [n_iter |-> 8, p |-> <<11455, 4623, 27799, 18596, 14278, 88460>>]],
      [key |-> <<6, 2, 1, 3, 0, 0, 4>>, train |-> {1, 2, 4, 6},
       summed   |-> [n_iter |-> 8, p |-> <<7784, 15056, 31802, 13726, 53759, 87811>>],
       averaged |-> [n_iter |-> 8, p |-> <<7784, 15056, 31802, 13726, 53759, 87811>>]],
      [key |-> <<6, 2, 1, 3, 1, 0, 3>>, train |-> {1, 2, 4, 6},
       summed   |-> [n_iter |-> 9, p |-> <<12958, 4074, 27651, 20053, 17270, 87640>>],
       averaged |-> [n_iter |-> 8, p |-> <<12958, 4074, 27659, 20061, 17277, 87644>>]],
      [key |-> <<6, 2, 1, 3, 1, 0, 4>>, train |-> {1, 2, 4, 6},
       summed   |-> [n_iter |-> 8, p |-> <<9757, 13665, 33542, 14574, 61218, 87333>>],
       averaged |-> [n_iter |-> 8, p |-> <<9757, 13665, 33542, 14574, 61218, 87333>>]],
      [key |-> <<6, 2, 1, 4, 0, 0, 3>>, train |-> {1, 2, 4, 6},
       summed   |-> [n_iter |-> 9, p |-> <<12324, 5572, 57240, 16920, 11572, 88395>>],
       averaged |-> [n_iter |-> 8, p |-> <<12329, 5572, 57247, 16927, 11574, 88392>>]],
      [key |-> <<6, 2, 1, 4, 0, 0, 4>>, train |-> {1, 2, 4, 6},
       summed   |-> [n_iter |-> 7, p |-> <<8438, 15699, 64246, 14811, 54052, 87016>>],
       averaged |-> [n_iter |-> 7, p |-> <<8438, 15699, 64246, 14811, 54052, 87016>>]],
      [key |-> <<6, 2, 1, 4, 1, 0, 3>>, train |-> {1, 2, 4, 6},
       summed   |-> [n_iter |-> 9, p |-> <<14085, 4967, 58686, 18215, 13982, 87579>>],
       averaged |-> [n_iter |-> 8, p |-> <<14085, 4967, 58687, 18221, 13988, 87576>>]],
      [key |-> <<6, 2, 1, 4, 1, 0, 4>>, train |-> {1, 2, 4, 6},
       summed   |-> [n_iter |-> 8, p |-> <<10655, 14281, 68186, 15745, 62038, 86440>>],
       averaged |-> [n_iter |-> 7, p |-> <<10655, 14286, 68194, 15743, 62040, 86443>>]],
      [key |-> <<6, 2, 2, 0, 0, 0, 3>>, train |-> {1, 2, 4, 6},
       summed   |-> [n_iter |-> 9, p |-> <<14923, 4622, 55755, 16469, 11996, 87995>>],
       averaged |-> [n_iter |-> 9, p |-> <<14923, 4622, 55755, 16469, 11996, 87995>>]],
      [key |-> <<6, 2, 2, 0, 0, 0, 4>>, train |-> {1, 2, 4, 6},
       summed   |-> [n_iter |-> 8, p |-> <<10133, 14745, 64428, 14446, 54314, 86892>>],
       averaged |-> [n_iter |-> 8, p |-> <<10133, 14745, 64428, 14446, 54314, 86892>>]],
      [key |-> <<6, 2, 2, 1, 0, 0, 3>>, train |-> {1, 2, 4, 6},
       summed   |-> [n_iter |-> 9, p |-> <<10068, 5781, 30061, 16679, 26405, 89158>>],
       averaged |-> [n_iter |-> 8, p |-> <<10081, 5788, 30092, 16696, 26420, 89164>>]],
      [key |-> <<6, 2, 2, 1, 0, 0, 4>>, train |-> {1, 2, 4, 6},
       summed   |-> [n_iter |-> 8, p |-> <<8935, 11549, 51571, 12865, 43269, 88885>>],
       averaged |-> [n_iter |-> 7, p |-> <<8936, 11554, 51595, 12866, 43279, 88886>>]],
      [key |-> <<6, 2, 2, 2, 0, 0, 3>>, train |-> {1, 2, 4, 6},
       summed   |-> [n_iter |-> 9, p |-> <<11616, 4460, 39966, 13045, 35184, 90293>>],
       averaged |-> [n_iter |-> 8, p |-> <<11621, 4460, 39972, 13042, 35163, 90293>>]],
      [key |-> <<6, 2, 2, 2, 0, 0, 4>>, train |-> {1, 2, 4, 6},
       summed   |-> [n_iter |-> 10, p |-> <<8606, 11826, 48072, 11713, 67323, 89285>>],
       averaged |-> [n_iter |-> 9, p |-> <<8606, 11830, 48086, 11713, 67326, 89285>>]],
      [key |-> <<6, 2, 2, 3, 0, 0, 3>>, train |-> {1, 2, 4, 6},
       summed   |-> [n_iter |-> 9, p |-> <<12119, 3409, 28441, 19085, 15034, 88463>>],
       averaged |-> [n_iter |-> 8, p |-> <<12139, 3415, 28456, 19093, 15035, 88462>>]],
      [key |-> <<6, 2, 2, 3, 0, 0, 4>>, train |-> {1, 2, 4, 6},
       summed   |-> [n_iter |-> 9, p |-> <<7983, 12344, 36032, 14573, 54671, 88366>>],
       averaged |-> [n_iter |-> 8, p |-> <<7980, 12340, 36024, 14566, 54660, 88364>>]],
      [key |-> <<6, 2, 2, 4, 0, 0, 3>>, train |-> {1, 2, 4, 6},
       summed   |-> [n_iter |-> 9, p |-> <<13132, 4028, 57366, 17541, 12324, 88434>>],
       averaged |-> [n_iter |-> 9, p |-> <<13132, 4028, 57366, 17541, 12324, 88434>>]],
      [key |-> <<6, 2, 2, 4, 0, 0, 4>>, train |-> {1, 2, 4, 6},
       summed   |-> [n_iter |-> 9, p |-> <<8669, 12820, 67749, 15590, 54901, 87640>>],
       averaged |-> [n_iter |-> 8, p |-> <<8667, 12818, 67747, 15583, 54894, 87639>>]],
      [key |-> <<6, 3, 0, 0, 0, 0, 3>>, train |-> {1, 2, 5, 6},
       summed   |-> [n_iter |-> 5, p |-> <<13318, 13851, 80196, 80486, 87867, 84960>>],
       averaged |-> [n_iter |-> 4, p |-> <<13313, 13850, 80194, 80491, 87869, 84963>>]],
      [key |-> <<6, 3, 0, 0, 0, 0, 4>>, train |-> {1, 2, 5, 6},
       summed   |-> [n_iter |-> 6, p |-> <<12879, 15646, 78853, 77766, 88006, 83461>>],
       averaged |-> [n_iter |-> 5, p |-> <<12876, 15643, 78854, 77767, 88008, 83462>>]],
      [key |-> <<6, 3, 0, 0, 0, 1, 3>>, train |-> {1, 2, 5, 6},
       summed   |-> [n_iter |-> 7, p |-> <<10427, 15600, 82627, 80595, 88247, 85729>>],
       averaged |-> [n_iter |-> 6, p |-> <<10433, 15605, 82636, 80603, 88256, 85735>>]],
      [key |-> <<6, 3, 0, 0, 0, 1, 4>>, train |-> {1, 2, 5, 6},
       summed   |-> [n_iter |-> 8, p |-> <<10369, 17116, 77765, 81430, 89025, 83497>>],
       averaged |-> [n_iter |-> 6, p |-> <<10377, 17127, 77771, 81439, 89029, 83501>>]],
      [key |-> <<6, 3, 0, 0, 1, 0, 3>>, train |-> {1, 2, 5, 6},
       summed   |-> [n_iter |-> 8, p |-> <<9966, 15879, 83004, 80643, 88323, 85831>>],
       averaged |-> [n_iter |-> 7, p |-> <<9967, 15878, 83008, 80647, 88327, 85833>>]],
      [key |-> <<6, 3, 0, 0, 1, 0, 4>>, train |-> {1, 2, 5, 6},
       summed   |-> [n_iter |-> 8, p |-> <<9963, 17357, 77713, 81952, 89255, 83429>>],
       averaged |-> [n_iter |-> 5, p |-> <<9977, 17372, 77715, 81967, 89261, 83430>>]],
      [key |-> <<6, 3, 0, 1, 1, 0, 3>>, train |-> {1, 2, 5, 6},
       summed   |-> [n_iter |-> 9, p |-> <<8692, 15461, 72269, 73413, 87480, 88366>>],
       averaged |-> [n_iter |-> 7, p |-> <<8693, 15458, 72288, 73424, 87489, 88377>>]],
      [key |-> <<6, 3, 0, 1, 1, 0, 4>>, train |-> {1, 2, 5, 6},
       summed   |-> [n_iter |-> 7, p |-> <<10229, 14959, 63458, 83031, 87515, 87299>>],
       averaged |-> [n_iter |-> 5, p |-> <<10238, 14969, 63472, 83042, 87523, 87306>>]],
      [key |-> <<6, 3, 0, 2, 1, 0, 3>>, train |-> {1, 2, 5, 6},
       summed   |-> [n_iter |-> 7, p |-> <<9076, 13221, 73538, 67991, 88969, 88735>>],
       averaged |-> [n_iter |-> 7, p |-> <<9076, 13221, 73538, 67991, 88969, 88735>>]],
      [key |-> <<6, 3, 0, 2, 1, 0, 4>>, train |-> {1, 2, 5, 6},
       summed   |-> [n_iter |-> 8, p |-> <<8713, 14430, 64684, 69596, 90648, 86207>>],
       averaged |-> [n_iter |-> 6, p |-> <<8721, 14440, 64702, 69620, 90657, 86217>>]],
      [key |-> <<6, 3, 0, 3, 1, 0, 3>>, train |-> {1, 2, 5, 6},
       summed   |-> [n_iter |-> 7, p |-> <<9076, 13221, 73113, 84117, 88969, 88735>>],
       averaged |-> [n_iter |-> 7, p |-> <<9076, 13221, 73113, 84117, 88969, 88735>>]],
      [key |-> <<6, 3, 0, 3, 1, 0, 4>>, train |-> {1, 2, 5, 6},
       summed   |-> [n_iter |-> 7, p |-> <<7818, 14692, 61458, 78772, 89825, 87667>>],
       averaged |-> [n_iter |-> 7, p |-> <<7818, 14692, 61458, 78772, 89825, 87667>>]],
      [key |-> <<6, 3, 1, 0, 0, 0, 3>>, train |-> {1, 2, 5, 6},
       summed   |-> [n_iter |-> 7, p |-> <<10427, 15600, 82627, 80595, 88247, 85729>>],
       averaged |-> [n_iter |-> 6, p |-> <<10433, 15605, 82636, 80603, 88256, 85735>>]],
      [key |-> <<6, 3, 1, 0, 0, 0, 4>>, train |-> {1, 2, 5, 6},
       summed   |-> [n_iter |-> 8, p |-> <<10369, 17116, 77765, 81430, 89025, 83497>>],
       averaged |-> [n_iter |-> 6, p |-> <<10377, 17127, 77771, 81439, 89029, 83501>>]],
      [key |-> <<6, 3, 1, 0, 0, 1, 3>>, train |-> {1, 2, 5, 6},
       summed   |-> [n_iter |-> 5, p |-> <<12198, 14822, 80993, 80199, 87885, 85102>>],
       averaged |-> [n_iter |-> 4, p |-> <<12192, 14825, 80995, 80205, 87884, 85110>>]],
      [key |-> <<6, 3, 1, 0, 0, 1, 4>>, train |-> {1, 2, 5, 6},
       summed   |-> [n_iter |-> 7, p |-> <<12087, 16371, 78146, 78828, 88262, 83271>>],
       averaged |-> [n_iter |-> 5, p |-> <<12079, 16364, 78149, 78829, 88265, 83275>>]],
      [key |-> <<6, 3, 1, 0, 0, 2, 3>>, train |-> {1, 2, 5, 6},
       summed   |-> [n_iter |-> 5, p |-> <<14395, 12568, 79639, 81153, 88013, 85022>>],
       averaged |-> [n_iter |-> 4, p |-> <<14397, 12564, 79644, 81153, 88013, 85025>>]],
      [key |-> <<6, 3, 1, 0, 0, 2, 4>>, train |-> {1, 2, 5, 6},
       summed   |-> [n_iter |-> 7, p |-> <<14083, 14038, 80574, 76368, 87747, 84130>>],
       averaged |-> [n_iter |-> 5, p |-> <<14078, 14033, 80570, 76363, 87745, 84127>>]],
      [key |-> <<6, 3, 1, 0, 1, 0, 3>>, train |-> {1, 2, 5, 6},
       summed   |-> [n_iter |-> 5, p |-> <<12778, 14057, 80797, 80762, 88065, 85094>>],
       averaged |-> [n_iter |-> 4, p |-> <<12775, 14055, 80798, 80764, 88066, 85096>>]],
      [key |-> <<6, 3, 1, 0, 1, 0, 4>>, train |-> {1, 2, 5, 6},
       summed   |-> [n_iter |-> 8, p |-> <<12630, 15558, 79242, 78209, 88270, 83535>>],
       averaged |-> [n_iter |-> 5, p |-> <<12618, 15548, 79242, 78203, 88269, 83535>>]],
      [key |-> <<6, 3, 1, 1, 0, 0, 3>>, train |-> {1, 2, 5, 6},
       summed   |-> [n_iter |-> 8, p |-> <<9093, 15183, 71542, 73368, 87488, 88237>>],
       averaged |-> [n_iter |-> 7, p |-> <<9095, 15180, 71561, 73379, 87498, 88246>>]],
      [key |-> <<6, 3, 1, 1, 0, 0, 4>>, train |-> {1, 2, 5, 6},
       summed   |-> [n_iter |-> 7, p |-> <<10631, 14756, 64699, 82236, 87371, 87243>>],
       averaged |-> [n_iter |-> 5, p |-> <<10638, 14764, 64709, 82244, 87377, 87248>>]],
      [key |-> <<6, 3, 1, 1, 1, 0, 3>>, train |-> {1, 2, 5, 6},
       summed   |-> [n_iter |-> 7, p |-> <<11008, 13774, 67859, 72848, 87337, 87883>>],
       averaged |-> [n_iter |-> 5, p |-> <<11012, 13779, 67867, 72854, 87340, 87887>>]],
      [key |-> <<6, 3, 1, 1, 1, 0, 4>>, train |-> {1, 2, 5, 6},
       summed   |-> [n_iter |-> 5, p |-> <<12425, 13781, 70289, 78358, 86725, 87070>>],
       averaged |-> [n_iter |-> 4, p |-> <<12424, 13781, 70296, 78361, 86729, 87067>>]],
      [key |-> <<6, 3, 1, 2, 0, 0, 3>>, train |-> {1, 2, 5, 6},
       summed   |-> [n_iter |-> 7, p |-> <<9483, 12962, 72992, 67905, 88925, 88631>>],
       averaged |-> [n_iter |-> 7, p |-> <<9483, 12962, 72992, 67905, 88925, 88631>>]],
      [key |-> <<6, 3, 1, 2, 0, 0, 4>>, train |-> {1, 2, 5, 6},
       summed   |-> [n_iter |-> 7, p |-> <<9038, 14227, 64652, 68862, 90474, 86261>>],
       averaged |-> [n_iter |-> 5, p |-> <<9046, 14236, 64667, 68884, 90482, 86269>>]],
      [key |-> <<6, 3, 1, 2, 1, 0, 3>>, train |-> {1, 2, 5, 6},
       summed   |-> [n_iter |-> 5, p |-> <<11295, 11794, 70517, 67574, 88740, 88171>>],
       averaged |-> [n_iter |-> 4, p |-> <<11292, 11800, 70511, 67577, 88740, 88168>>]],
      [key |-> <<6, 3, 1, 2, 1, 0, 4>>, train |-> {1, 2, 5, 6},
       summed   |-> [n_iter |-> 8, p |-> <<10776, 13003, 65754, 64896, 89932, 86291>>],
       averaged |-> [n_iter |-> 5, p |-> <<10769, 12995, 65738, 64876, 89925, 86283>>]],
      [key |-> <<6, 3, 1, 3, 0, 0, 3>>, train |-> {1, 2, 5, 6},
       summed   |-> [n_iter |-> 7, p |-> <<9483, 12962, 72608, 84112, 88925, 88631>>],
       averaged |-> [n_iter |-> 7, p |-> <<9483, 12962, 72608, 84112, 88925, 88631>>]],
      [key |-> <<6, 3, 1, 3, 0, 0, 4>>, train |-> {1, 2, 5, 6},
       summed   |-> [n_iter |-> 7, p |-> <<8118, 14490, 61251, 78328, 89717, 87677>>],
       averaged |-> [n_iter |-> 7, p |-> <<8118, 14490, 61251, 78328, 89717, 87677>>]],
      [key |-> <<6, 3, 1, 3, 1, 0, 3>>, train |-> {1, 2, 5, 6},
       summed   |-> [n_iter |-> 5, p |-> <<11295, 11794, 70333, 84113, 88740, 88171>>],
       averaged |-> [n_iter |-> 4, p |-> <<11292, 11800, 70328, 84113, 88740, 88168>>]],
      [key |-> <<6, 3, 1, 3, 1, 0, 4>>, train |-> {1, 2, 5, 6},
       summed   |-> [n_iter |-> 7, p |-> <<9784, 13156, 60724, 75991, 89203, 87857>>],
       averaged |-> [n_iter |-> 5, p |-> <<9790, 13164, 60740, 76005, 89210, 87865>>]],
      [key |-> <<6, 3, 2, 0, 0, 0, 3>>, train |-> {1, 2, 5, 6},
       summed   |-> [n_iter |-> 7, p |-> <<11340, 11758, 83865, 84132, 89611, 87288>>],
       averaged |-> [n_iter |-> 5, p |-> <<11337, 11757, 83860, 84130, 89609, 87285>>]],
      [key |-> <<6, 3, 2, 0, 0, 0, 4>>, train |-> {1, 2, 5, 6},
       summed   |-> [n_iter |-> 7, p |-> <<10996, 13014, 83037, 82380, 89731, 86260>>],
       averaged |-> [n_iter |-> 5, p |-> <<10991, 13009, 83032, 82371, 89727, 86256>>]],
      [key |-> <<6, 3, 2, 1, 0, 0, 3>>, train |-> {1, 2, 5, 6},
       summed   |-> [n_iter |-> 7, p |-> <<9780, 11834, 73950, 78025, 88978, 89404>>],
       averaged |-> [n_iter |-> 5, p |-> <<9786, 11841, 73963, 78037, 88985, 89409>>]],
      [key |-> <<6, 3, 2, 1, 0, 0, 4>>, train |-> {1, 2, 5, 6},
       summed   |-> [n_iter |-> 5, p |-> <<11018, 11644, 77368, 81696, 88471, 88868>>],
       averaged |-> [n_iter |-> 4, p |-> <<11015, 11652, 77396, 81681, 88470, 88865>>]],
      [key |-> <<6, 3, 2, 2, 0, 0, 3>>, train |-> {1, 2, 5, 6},
       summed   |-> [n_iter |-> 6, p |-> <<10337, 10055, 75616, 73800, 90037, 89572>>],
       averaged |-> [n_iter |-> 5, p |-> <<10339, 10051, 75625, 73795, 90038, 89573>>]],
      [key |-> <<6, 3, 2, 2, 0, 0, 4>>, train |-> {1, 2, 5, 6},
       summed   |-> [n_iter |-> 8, p |-> <<9654, 11204, 72364, 71684, 90953, 88179>>],
       averaged |-> [n_iter |-> 5, p |-> <<9657, 11198, 72341, 71690, 90951, 88170>>]],
      [key |-> <<6, 3, 2, 3, 0, 0, 3>>, train |-> {1, 2, 5, 6},
       summed   |-> [n_iter |-> 6, p |-> <<10337, 10055, 75542, 86476, 90037, 89572>>],
       averaged |-> [n_iter |-> 5, p |-> <<10339, 10051, 75549, 86473, 90038, 89573>>]],
      [key |-> <<6, 3, 2, 3, 0, 0, 4>>, train |-> {1, 2, 5, 6},
       summed   |-> [n_iter |-> 8, p |-> <<8709, 11544, 68228, 80160, 90400, 89351>>],
       averaged |-> [n_iter |-> 6, p |-> <<8717, 11547, 68242, 80185, 90411, 89356>>]],
      [key |-> <<6, 4, 0, 0, 0, 0, 3>>, train |-> {2, 3, 4, 5},
       summed   |-> [n_iter |-> 8, p |-> <<9476, 10448, 88958, 89238, 90455, 80749>>],
       averaged |-> [n_iter |-> 8, p |-> <<9476, 10448, 88958, 89238, 90455, 80749>>]],
      [key |-> <<6, 4, 0, 0, 0, 0, 4>>, train |-> {2, 3, 4, 5},
       summed   |-> [n_iter |-> 8, p |-> <<9363, 11008, 83612, 91118, 92249, 75508>>],
       averaged |-> [n_iter |-> 7, p |-> <<9356, 11002, 83594, 91108, 92242, 75476>>]],
      [key |-> <<6, 4, 0, 0, 0, 1, 3>>, train |-> {2, 3, 4, 5},
       summed   |-> [n_iter |-> 8, p |-> <<9476, 10448, 88958, 89238, 90455, 80749>>],
       averaged |-> [n_iter |-> 8, p |-> <<9476, 10448, 88958, 89238, 90455, 80749>>]],
      [key |-> <<6, 4, 0, 0, 0, 1, 4>>, train |-> {2, 3, 4, 5},
       summed   |-> [n_iter |-> 8, p |-> <<9363, 11008, 83612, 91118, 92249, 75508>>],
       averaged |-> [n_iter |-> 7, p |-> <<9356, 11002, 83594, 91108, 92242, 75476>>]],
      [key |-> <<6, 4, 0, 0, 1, 0, 3>>, train |-> {2, 3, 4, 5},
       summed   |-> [n_iter |-> 8, p |-> <<7023, 10448, 88958, 89238, 90455, 80749>>],
       averaged |-> [n_iter |-> 8, p |-> <<7023, 10448, 88958, 89238, 90455, 80749>>]],
      [key |-> <<6, 4, 0, 0, 1, 0, 4>>, train |-> {2, 3, 4, 5},
       summed   |-> [n_iter |-> 8, p |-> <<7068, 11008, 83612, 91118, 92249, 75508>>],
       averaged |-> [n_iter |-> 7, p |-> <<7061, 11002, 83594, 91108, 92242, 75476>>]],
      [key |-> <<6, 4, 0, 1, 1, 0, 3>>, train |-> {2, 3, 4, 5},
       summed   |-> [n_iter |-> 8, p |-> <<7626, 10373, 90466, 89346, 89064, 80728>>],
       averaged |-> [n_iter |-> 8, p |-> <<7626, 10373, 90466, 89346, 89064, 80728>>]],
      [key |-> <<6, 4, 0, 1, 1, 0, 4>>, train |-> {2, 3, 4, 5},
       summed   |-> [n_iter |-> 8, p |-> <<6543, 10980, 84906, 90176, 91978, 74849>>],
       averaged |-> [n_iter |-> 7, p |-> <<6541, 10977, 84888, 90167, 91969, 74825>>]],
      [key |-> <<6, 4, 0, 2, 1, 0, 3>>, train |-> {2, 3, 4, 5},
       summed   |-> [n_iter |-> 9, p |-> <<7564, 10314, 89365, 88259, 91434, 85969>>],
       averaged |-> [n_iter |-> 8, p |-> <<7567, 10315, 89369, 88258, 91431, 85978>>]],
      [key |-> <<6, 4, 0, 2, 1, 0, 4>>, train |-> {2, 3, 4, 5},
       summed   |-> [n_iter |-> 9, p |-> <<7131, 10942, 83154, 90632, 93388, 79324>>],
       averaged |-> [n_iter |-> 8, p |-> <<7132, 10943, 83159, 90632, 93388, 79327>>]],
      [key |-> <<6, 4, 0, 3, 1, 0, 3>>, train |-> {2, 3, 4, 5},
       summed   |-> [n_iter |-> 9, p |-> <<7919, 9973, 87726, 91467, 90889, 87502>>],
       averaged |-> [n_iter |-> 8, p |-> <<7917, 9974, 87728, 91467, 90893, 87496>>]],
      [key |-> <<6, 4, 0, 3, 1, 0, 4>>, train |-> {2, 3, 4, 5},
       summed   |-> [n_iter |-> 9, p |-> <<8999, 10281, 82511, 94051, 92595, 71729>>],
       averaged |-> [n_iter |-> 8, p |-> <<9003, 10286, 82519, 94049, 92592, 71737>>]],
      [key |-> <<6, 4, 0, 4, 1, 0, 3>>, train |-> {2, 3, 4, 5},
       summed   |-> [n_iter |-> 9, p |-> <<6329, 8955, 90576, 90813, 91747, 84584>>],
       averaged |-> [n_iter |-> 9, p |-> <<6329, 8955, 90576, 90813, 91747, 84584>>]],
      [key |-> <<6, 4, 0, 4, 1, 0, 4>>, train |-> {2, 3, 4, 5},
       summed   |-> [n_iter |-> 10, p |-> <<6387, 9319, 86567, 92341, 93133, 80812>>],
       averaged |-> [n_iter |-> 8, p |-> <<6384, 9319, 86567, 92339, 93133, 80805>>]],
      [key |-> <<6, 4, 1, 0, 0, 0, 3>>, train |-> {2, 3, 4, 5},
       summed   |-> [n_iter |-> 8, p |-> <<9476, 10448, 88958, 89238, 90455, 80749>>],
       averaged |-> [n_iter |-> 8, p |-> <<9476, 10448, 88958, 89238, 90455, 80749>>]],
      [key |-> <<6, 4, 1, 0, 0, 0, 4>>, train |-> {2, 3, 4, 5},
       summed   |-> [n_iter |-> 8, p |-> <<9363, 11008, 83612, 91118, 92249, 75508>>],
       averaged |-> [n_iter |-> 7, p |-> <<9356, 11002, 83594, 91108, 92242, 75476>>]],
      [key |-> <<6, 4, 1, 0, 0, 1, 3>>, train |-> {2, 3, 4, 5},
       summed   |-> [n_iter |-> 9, p |-> <<61085, 8955, 90576, 90813, 91747, 84584>>],
       averaged |-> [n_iter |-> 9, p |-> <<61085, 8955, 90576, 90813, 91747, 84584>>]],
      [key |-> <<6, 4, 1, 0, 0, 1, 4>>, train |-> {2, 3, 4, 5},
       summed   |-> [n_iter |-> 10, p |-> <<63657, 9319, 86567, 92341, 93133, 80812>>],
       averaged |-> [n_iter |-> 8, p |-> <<63644, 9319, 86567, 92339, 93133, 80805>>]],
      [key |-> <<6, 4, 1, 0, 0, 2, 3>>, train |-> {2, 3, 4, 5},
       summed   |-> [n_iter |-> 9, p |-> <<27254, 8955, 90576, 90813, 91747, 84584>>],
       averaged |-> [n_iter |-> 9, p |-> <<27254, 8955, 90576, 90813, 91747, 84584>>]],
      [key |-> <<6, 4, 1, 0, 0, 2, 4>>, train |-> {2, 3, 4, 5},
       summed   |-> [n_iter |-> 10, p |-> <<28280, 9319, 86567, 92341, 93133, 80812>>],
       averaged |-> [n_iter |-> 8, p |-> <<28271, 9319, 86567, 92339, 93133, 80805>>]],
      [key |-> <<6, 4, 1, 0, 1, 0, 3>>, train |-> {2, 3, 4, 5},
       summed   |-> [n_iter |-> 9, p |-> <<31335, 8955, 90576, 90813, 91747, 84584>>],
       averaged |-> [n_iter |-> 9, p |-> <<31335, 8955, 90576, 90813, 91747, 84584>>]],
      [key |-> <<6, 4, 1, 0, 1, 0, 4>>, train |-> {2, 3, 4, 5},
       summed   |-> [n_iter |-> 10, p |-> <<33253, 9319, 86567, 92341, 93133, 80812>>],
       averaged |-> [n_iter |-> 8, p |-> <<33239, 9319, 86567, 92339, 93133, 80805>>]],
      [key |-> <<6, 4, 1, 1, 0, 0, 3>>, train |-> {2, 3, 4, 5},
       summed   |-> [n_iter |-> 8, p |-> <<10387, 10373, 90466, 89346, 89064, 80728>>],
       averaged |-> [n_iter |-> 8, p |-> <<10387, 10373, 90466, 89346, 89064, 80728>>]],
      [key |-> <<6, 4, 1, 1, 0, 0, 4>>, train |-> {2, 3, 4, 5},
       summed   |-> [n_iter |-> 8, p |-> <<8743, 10980, 84906, 90176, 91978, 74849>>],
       averaged |-> [n_iter |-> 7, p |-> <<8741, 10977, 84888, 90167, 91969, 74825>>]],
      [key |-> <<6, 4, 1, 1, 1, 0, 3>>, train |-> {2, 3, 4, 5},
       summed   |-> [n_iter |-> 9, p |-> <<32884, 8903, 91753, 90888, 90653, 84648>>],
       averaged |-> [n_iter |-> 9, p |-> <<32884, 8903, 91753, 90888, 90653, 84648>>]],
      [key |-> <<6, 4, 1, 1, 1, 0, 4>>, train |-> {2, 3, 4, 5},
       summed   |-> [n_iter |-> 10, p |-> <<31640, 9310, 87541, 91613, 92917, 80445>>],
       averaged |-> [n_iter |-> 9, p |-> <<31650, 9311, 87543, 91614, 92916, 80451>>]],
      [key |-> <<6, 4, 1, 2, 0, 0, 3>>, train |-> {2, 3, 4, 5},
       summed   |-> [n_iter |-> 9, p |-> <<10118, 10314, 89365, 88259, 91434, 85969>>],
       averaged |-> [n_iter |-> 8, p |-> <<10122, 10315, 89369, 88258, 91431, 85978>>]],
      [key |-> <<6, 4, 1, 2, 0, 0, 4>>, train |-> {2, 3, 4, 5},
       summed   |-> [n_iter |-> 9, p |-> <<9354, 10942, 83154, 90632, 93388, 79324>>],
       averaged |-> [n_iter |-> 8, p |-> <<9354, 10943, 83159, 90632, 93388, 79327>>]],
      [key |-> <<6, 4, 1, 2, 1, 0, 3>>, train |-> {2, 3, 4, 5},
       summed   |-> [n_iter |-> 9, p |-> <<32372, 8859, 90862, 90064, 92500, 88380>>],
       averaged |-> [n_iter |-> 9, p |-> <<32372, 8859, 90862, 90064, 92500, 88380>>]],
      [key |-> <<6, 4, 1, 2, 1, 0, 4>>, train |-> {2, 3, 4, 5},
       summed   |-> [n_iter |-> 9, p |-> <<33168, 9269, 86186, 91953, 94055, 83619>>],
       averaged |-> [n_iter |-> 8, p |-> <<33173, 9271, 86189, 91951, 94052, 83619>>]],
      [key |-> <<6, 4, 1, 3, 0, 0, 3>>, train |-> {2, 3, 4, 5},
       summed   |-> [n_iter |-> 9, p |-> <<10423, 9973, 87726, 91467, 90889, 87502>>],
       averaged |-> [n_iter |-> 8, p |-> <<10420, 9974, 87728, 91467, 90893, 87496>>]],
      [key |-> <<6, 4, 1, 3, 0, 0, 4>>, train |-> {2, 3, 4, 5},
       summed   |-> [n_iter |-> 9, p |-> <<11522, 10281, 82511, 94051, 92595, 71729>>],
       averaged |-> [n_iter |-> 8, p |-> <<11526, 10286, 82519, 94049, 92592, 71737>>]],
      [key |-> <<6, 4, 1, 3, 1, 0, 3>>, train |-> {2, 3, 4, 5},
       summed   |-> [n_iter |-> 10, p |-> <<32114, 8614, 89583, 92491, 92084, 89425>>],
       averaged |-> [n_iter |-> 9, p |-> <<32119, 8615, 89582, 92491, 92083, 89427>>]],
      [key |-> <<6, 4, 1, 3, 1, 0, 4>>, train |-> {2, 3, 4, 5},
       summed   |-> [n_iter |-> 10, p |-> <<35790, 8796, 85595, 94608, 93410, 77821>>],
       averaged |-> [n_iter |-> 9, p |-> <<35783, 8796, 85595, 94606, 93410, 77822>>]],
      [key |-> <<6, 4, 1, 4, 0, 0, 3>>, train |-> {2, 3, 4, 5},
       summed   |-> [n_iter |-> 9, p |-> <<8208, 8955, 90576, 90813, 91747, 84584>>],
       averaged |-> [n_iter |-> 9, p |-> <<8208, 8955, 90576, 90813, 91747, 84584>>]],
      [key |-> <<6, 4, 1, 4, 0, 0, 4>>, train |-> {2, 3, 4, 5},
       summed   |-> [n_iter |-> 10, p |-> <<8153, 9319, 86567, 92341, 93133, 80812>>],
       averaged |-> [n_iter |-> 8, p |-> <<8150, 9319, 86567, 92339, 93133, 80805>>]],
      [key |-> <<6, 4, 1, 4, 1, 0, 3>>, train |-> {2, 3, 4, 5},
       summed   |-> [n_iter |-> 9, p |-> <<24747, 7875, 91740, 91942, 92689, 87144>>],
       averaged |-> [n_iter |-> 9, p |-> <<24747, 7875, 91740, 91942, 92689, 87144>>]],
      [key |-> <<6, 4, 1, 4, 1, 0, 4>>, train |-> {2, 3, 4, 5},
       summed   |-> [n_iter |-> 10, p |-> <<26001, 8130, 88589, 93216, 93804, 84281>>],
       averaged |-> [n_iter |-> 9, p |-> <<26018, 8132, 88592, 93217, 93804, 84291>>]],
      [key |-> <<6, 4, 2, 0, 0, 0, 3>>, train |-> {2, 3, 4, 5},
       summed   |-> [n_iter |-> 9, p |-> <<8208, 8955, 90576, 90813, 91747, 84584>>],
       averaged |-> [n_iter |-> 9, p |-> <<8208, 8955, 90576, 90813, 91747, 84584>>]],
      [key |-> <<6, 4, 2, 0, 0, 0, 4>>, train |-> {2, 3, 4, 5},
       summed   |-> [n_iter |-> 10, p |-> <<8153, 9319, 86567, 92341, 93133, 80812>>],
       averaged |-> [n_iter |-> 8, p |-> <<8150, 9319, 86567, 92339, 93133, 80805>>]],
      [key |-> <<6, 4, 2, 1, 0, 0, 3>>, train |-> {2, 3, 4, 5},
       summed   |-> [n_iter |-> 9, p |-> <<8934, 8903, 91753, 90888, 90653, 84648>>],
       averaged |-> [n_iter |-> 9, p |-> <<8934, 8903, 91753, 90888, 90653, 84648>>]],
      [key |-> <<6, 4, 2, 1, 0, 0, 4>>, train |-> {2, 3, 4, 5},
       summed   |-> [n_iter |-> 10, p |-> <<7676, 9310, 87541, 91613, 92917, 80445>>],
       averaged |-> [n_iter |-> 9, p |-> <<7677, 9311, 87543, 91614, 92916, 80451>>]],
      [key |-> <<6, 4, 2, 2, 0, 0, 3>>, train |-> {2, 3, 4, 5},
       summed   |-> [n_iter |-> 9, p |-> <<8693, 8859, 90862, 90064, 92500, 88380>>],
       averaged |-> [n_iter |-> 9, p |-> <<8693, 8859, 90862, 90064, 92500, 88380>>]],
      [key |-> <<6, 4, 2, 2, 0, 0, 4>>, train |-> {2, 3, 4, 5},
       summed   |-> [n_iter |-> 9, p |-> <<8141, 9269, 86186, 91953, 94055, 83619>>],
       averaged |-> [n_iter |-> 8, p |-> <<8143, 9271, 86189, 91951, 94052, 83619>>]],
      [key |-> <<6, 4, 2, 3, 0, 0, 3>>, train |-> {2, 3, 4, 5},
       summed   |-> [n_iter |-> 10, p |-> <<8917, 8614, 89583, 92491, 92084, 89425>>],
       averaged |-> [n_iter |-> 9, p |-> <<8920, 8615, 89582, 92491, 92083, 89427>>]],
      [key |-> <<6, 4, 2, 3, 0, 0, 4>>, train |-> {2, 3, 4, 5},
       summed   |-> [n_iter |-> 10, p |-> <<9787, 8796, 85595, 94608, 93410, 77821>>],
       averaged |-> [n_iter |-> 9, p |-> <<9785, 8796, 85595, 94606, 93410, 77822>>]],
      [key |-> <<6, 4, 2, 4, 0, 0, 3>>, train |-> {2, 3, 4, 5},
       summed   |-> [n_iter |-> 9, p |-> <<7277, 7875, 91740, 91942, 92689, 87144>>],
       averaged |-> [n_iter |-> 9, p |-> <<7277, 7875, 91740, 91942, 92689, 87144>>]],
      [key |-> <<6, 4, 2, 4, 0, 0, 4>>, train |-> {2, 3, 4, 5},
       summed   |-> [n_iter |-> 10, p |-> <<7255, 8130, 88589, 93216, 93804, 84281>>],
       averaged |-> [n_iter |-> 9, p |-> <<7258, 8132, 88592, 93217, 93804, 84291>>]],
      [key |-> <<7, 2, 0, 0, 0, 0, 3>>, train |-> {1, 2, 3, 5, 6},
       summed   |-> [n_iter |-> 7, p |-> <<9134, 10927, 25135, 24665, 10420, 86095, 65643>>],
       averaged |-> [n_iter |-> 7, p |-> <<9134, 10927, 25135, 24665, 10420, 86095, 65643>>]],
      [key |-> <<7, 2, 0, 0, 0, 0, 4>>, train |-> {1, 2, 3, 5, 6},
       summed   |-> [n_iter |-> 9, p |-> <<8167, 19278, 18389, 24271, 20851, 83329, 78349>>],
       averaged |-> [n_iter |-> 8, p |-> <<8166, 19279, 18387, 24272, 20851, 83330, 78349>>]],
      [key |-> <<7, 2, 0, 0, 0, 1, 3>>, train |-> {1, 2, 3, 5, 6},
       summed   |-> [n_iter |-> 8, p |-> <<7574, 11555, 25679, 24681, 10515, 86170, 66015>>],
       averaged |-> [n_iter |-> 7, p |-> <<7576, 11557, 25684, 24683, 10515, 86167, 66008>>]],
      [key |-> <<7, 2, 0, 0, 0, 1, 4>>, train |-> {1, 2, 3, 5, 6},
       summed   |-> [n_iter |-> 9, p |-> <<6917, 19889, 18480, 25195, 21213, 83375, 78072>>],
       averaged |-> [n_iter |-> 8, p |-> <<6917, 19891, 18479, 25192, 21209, 83375, 78070>>]],
      [key |-> <<7, 2, 0, 0, 1, 0, 3>>, train |-> {1, 2, 3, 5, 6},
       summed   |-> [n_iter |-> 9, p |-> <<7967, 11133, 26348, 27174, 11766, 85696, 64928>>],
       averaged |-> [n_iter |-> 8, p |-> <<7967, 11136, 26349, 27179, 11767, 85696, 64922>>]],
      [key |-> <<7, 2, 0, 0, 1, 0, 4>>, train |-> {1, 2, 3, 5, 6},
       summed   |-> [n_iter |-> 9, p |-> <<7267, 19857, 19157, 26213, 23702, 82505, 78214>>],
       averaged |-> [n_iter |-> 8, p |-> <<7271, 19863, 19151, 26222, 23703, 82504, 78207>>]],
      [key |-> <<7, 2, 0, 1, 1, 0, 3>>, train |-> {1, 2, 3, 5, 6},
       summed   |-> [n_iter |-> 9, p |-> <<8195, 12451, 25591, 26648, 12060, 85426, 69705>>],
       averaged |-> [n_iter |-> 7, p |-> <<8194, 12457, 25596, 26657, 12060, 85423, 69692>>]],
      [key |-> <<7, 2, 0, 1, 1, 0, 4>>, train |-> {1, 2, 3, 5, 6},
       summed   |-> [n_iter |-> 9, p |-> <<6809, 20034, 20570, 22725, 22449, 82535, 78199>>],
       averaged |-> [n_iter |-> 8, p |-> <<6809, 20037, 20566, 22727, 22447, 82534, 78196>>]],
      [key |-> <<7, 2, 0, 2, 1, 0, 3>>, train |-> {1, 2, 3, 5, 6},
       summed   |-> [n_iter |-> 9, p |-> <<6518, 8788, 17661, 18586, 9874, 89289, 76556>>],
       averaged |-> [n_iter |-> 8, p |-> <<6519, 8790, 17660, 18586, 9870, 89289, 76548>>]],
      [key |-> <<7, 2, 0, 2, 1, 0, 4>>, train |-> {1, 2, 3, 5, 6},
       summed   |-> [n_iter |-> 8, p |-> <<6759, 12898, 9745, 20233, 16232, 88592, 85453>>],
       averaged |-> [n_iter |-> 7, p |-> <<6755, 12904, 9749, 20235, 16234, 88592, 85451>>]],
      [key |-> <<7, 2, 0, 3, 1, 0, 3>>, train |-> {1, 2, 3, 5, 6},
       summed   |-> [n_iter |-> 9, p |-> <<7211, 8105, 19100, 13624, 13827, 87939, 64162>>],
       averaged |-> [n_iter |-> 8, p |-> <<7211, 8104, 19096, 13621, 13824, 87939, 64162>>]],
      [key |-> <<7, 2, 0, 3, 1, 0, 4>>, train |-> {1, 2, 3, 5, 6},
       summed   |-> [n_iter |-> 9, p |-> <<5992, 16049, 13872, 14631, 26634, 84363, 78701>>],
       averaged |-> [n_iter |-> 8, p |-> <<5998, 16057, 13867, 14636, 26630, 84363, 78694>>]],
      [key |-> <<7, 2, 0, 4, 1, 0, 3>>, train |-> {1, 2, 3, 5, 6},
       summed   |-> [n_iter |-> 7, p |-> <<8054, 7877, 15919, 37421, 12808, 88839, 63101>>],
       averaged |-> [n_iter |-> 7, p |-> <<8054, 7877, 15919, 37421, 12808, 88839, 63101>>]],
      [key |-> <<7, 2, 0, 4, 1, 0, 4>>, train |-> {1, 2, 3, 5, 6},
       summed   |-> [n_iter |-> 9, p |-> <<3794, 18631, 13257, 9254, 20448, 85967, 93194>>],
       averaged |-> [n_iter |-> 8, p |-> <<3797, 18636, 13252, 9255, 20443, 85967, 93192>>]],
      [key |-> <<7, 2, 1, 0, 0, 0, 3>>, train |-> {1, 2, 3, 5, 6},
       summed   |-> [n_iter |-> 8, p |-> <<7574, 11555, 25679, 24681, 10515, 86170, 66015>>],
       averaged |-> [n_iter |-> 7, p |-> <<7576, 11557, 25684, 24683, 10515, 86167, 66008>>]],
      [key |-> <<7, 2, 1, 0, 0, 0, 4>>, train |-> {1, 2, 3, 5, 6},
       summed   |-> [n_iter |-> 9, p |-> <<6917, 19889, 18480, 25195, 21213, 83375, 78072>>],
       averaged |-> [n_iter |-> 8, p |-> <<6917, 19891, 18479, 25192, 21209, 83375, 78070>>]],
      [key |-> <<7, 2, 1, 0, 0, 1, 3>>, train |-> {1, 2, 3, 5, 6},
       summed   |-> [n_iter |-> 8, p |-> <<8625, 11310, 25268, 24516, 10401, 86099, 65779>>],
       averaged |-> [n_iter |-> 7, p |-> <<8622, 11307, 25267, 24516, 10402, 86098, 65780>>]],
      [key |-> <<7, 2, 1, 0, 0, 1, 4>>, train |-> {1, 2, 3, 5, 6},
       summed   |-> [n_iter |-> 8, p |-> <<8355, 19085, 18409, 24192, 20801, 83339, 78365>>],
       averaged |-> [n_iter |-> 7, p |-> <<8359, 19102, 18401, 24218, 20813, 83336, 78354>>]],
      [key |-> <<7, 2, 1, 0, 0, 2, 3>>, train |-> {1, 2, 3, 5, 6},
       summed   |-> [n_iter |-> 8, p |-> <<9812, 10055, 25045, 25176, 10544, 86136, 65443>>],
       averaged |-> [n_iter |-> 7, p |-> <<9811, 10058, 25043, 25177, 10542, 86132, 65431>>]],
      [key |-> <<7, 2, 1, 0, 0, 2, 4>>, train |-> {1, 2, 3, 5, 6},
       summed   |-> [n_iter |-> 8, p |-> <<9676, 16553, 18928, 24256, 20505, 83585, 78211>>],
       averaged |-> [n_iter |-> 7, p |-> <<9676, 16563, 18924, 24278, 20519, 83589, 78213>>]],
      [key |-> <<7, 2, 1, 0, 1, 0, 3>>, train |-> {1, 2, 3, 5, 6},
       summed   |-> [n_iter |-> 8, p |-> <<9685, 10399, 25777, 27259, 11700, 85609, 64497>>],
       averaged |-> [n_iter |-> 7, p |-> <<9684, 10403, 25777, 27261, 11697, 85607, 64484>>]],
      [key |-> <<7, 2, 1, 0, 1, 0, 4>>, train |-> {1, 2, 3, 5, 6},
       summed   |-> [n_iter |-> 8, p |-> <<9532, 17891, 19289, 25043, 23110, 82545, 78514>>],
       averaged |-> [n_iter |-> 7, p |-> <<9538, 17902, 19286, 25060, 23118, 82543, 78505>>]],
      [key |-> <<7, 2, 1, 1, 0, 0, 3>>, train |-> {1, 2, 3, 5, 6},
       summed   |-> [n_iter |-> 8, p |-> <<7771, 12848, 24927, 24219, 10812, 85911, 70498>>],
       averaged |-> [n_iter |-> 7, p |-> <<7769, 12851, 24923, 24222, 10813, 85911, 70499>>]],
      [key |-> <<7, 2, 1, 1, 0, 0, 4>>, train |-> {1, 2, 3, 5, 6},
       summed   |-> [n_iter |-> 9, p |-> <<6471, 20162, 19849, 21704, 20044, 83369, 78655>>],
       averaged |-> [n_iter |-> 8, p |-> <<6475, 20169, 19837, 21715, 20044, 83367, 78649>>]],
      [key |-> <<7, 2, 1, 1, 1, 0, 3>>, train |-> {1, 2, 3, 5, 6},
       summed   |-> [n_iter |-> 7, p |-> <<10097, 11548, 24977, 26843, 12035, 85338, 69229>>],
       averaged |-> [n_iter |-> 7, p |-> <<10097, 11548, 24977, 26843, 12035, 85338, 69229>>]],
      [key |-> <<7, 2, 1, 1, 1, 0, 4>>, train |-> {1, 2, 3, 5, 6},
       summed   |-> [n_iter |-> 8, p |-> <<8986, 17960, 20720, 21886, 21932, 82600, 77932>>],
       averaged |-> [n_iter |-> 7, p |-> <<8992, 17952, 20720, 21878, 21922, 82600, 77930>>]],
      [key |-> <<7, 2, 1, 2, 0, 0, 3>>, train |-> {1, 2, 3, 5, 6},
       summed   |-> [n_iter |-> 8, p |-> <<6293, 9109, 17394, 17266, 9026, 89545, 77004>>],
       averaged |-> [n_iter |-> 7, p |-> <<6295, 9110, 17400, 17270, 9030, 89544, 77008>>]],
      [key |-> <<7, 2, 1, 2, 0, 0, 4>>, train |-> {1, 2, 3, 5, 6},
       summed   |-> [n_iter |-> 8, p |-> <<6555, 13163, 9680, 19324, 14839, 88941, 85430>>],
       averaged |-> [n_iter |-> 8, p |-> <<6555, 13163, 9680, 19324, 14839, 88941, 85430>>]],
      [key |-> <<7, 2, 1, 2, 1, 0, 3>>, train |-> {1, 2, 3, 5, 6},
       summed   |-> [n_iter |-> 8, p |-> <<7706, 8298, 17254, 18521, 9798, 89237, 76381>>],
       averaged |-> [n_iter |-> 7, p |-> <<7706, 8298, 17263, 18528, 9803, 89235, 76379>>]],
      [key |-> <<7, 2, 1, 2, 1, 0, 4>>, train |-> {1, 2, 3, 5, 6},
       summed   |-> [n_iter |-> 8, p |-> <<8258, 11901, 9706, 19522, 15924, 88552, 85499>>],
       averaged |-> [n_iter |-> 8, p |-> <<8258, 11901, 9706, 19522, 15924, 88552, 85499>>]],
      [key |-> <<7, 2, 1, 3, 0, 0, 3>>, train |-> {1, 2, 3, 5, 6},
       summed   |-> [n_iter |-> 9, p |-> <<6882, 8489, 18711, 12578, 12608, 88327, 65397>>],
       averaged |-> [n_iter |-> 8, p |-> <<6882, 8489, 18707, 12575, 12602, 88326, 65389>>]],
      [key |-> <<7, 2, 1, 3, 0, 0, 4>>, train |-> {1, 2, 3, 5, 6},
       summed   |-> [n_iter |-> 9, p |-> <<5669, 16199, 13431, 14033, 24044, 85164, 78855>>],
       averaged |-> [n_iter |-> 8, p |-> <<5671, 16202, 13432, 14033, 24042, 85164, 78854>>]],
      [key |-> <<7, 2, 1, 3, 1, 0, 3>>, train |-> {1, 2, 3, 5, 6},
       summed   |-> [n_iter |-> 9, p |-> <<8456, 7693, 18624, 13515, 13760, 87866, 63867>>],
       averaged |-> [n_iter |-> 8, p |-> <<8456, 7695, 18624, 13515, 13753, 87865, 63853>>]],
      [key |-> <<7, 2, 1, 3, 1, 0, 4>>, train |-> {1, 2, 3, 5, 6},
       summed   |-> [n_iter |-> 8, p |-> <<7628, 14593, 13926, 14179, 26264, 84399, 78798>>],
       averaged |-> [n_iter |-> 8, p |-> <<7628, 14593, 13926, 14179, 26264, 84399, 78798>>]],
      [key |-> <<7, 2, 1, 4, 0, 0, 3>>, train |-> {1, 2, 3, 5, 6},
       summed   |-> [n_iter |-> 9, p |-> <<7735, 8214, 15688, 34787, 11710, 89163, 64261>>],
       averaged |-> [n_iter |-> 8, p |-> <<7733, 8211, 15693, 34790, 11715, 89162, 64265>>]],
      [key |-> <<7, 2, 1, 4, 0, 0, 4>>, train |-> {1, 2, 3, 5, 6},
       summed   |-> [n_iter |-> 9, p |-> <<3644, 18611, 13064, 9370, 18708, 86492, 92770>>],
       averaged |-> [n_iter |-> 8, p |-> <<3643, 18610, 13059, 9368, 18704, 86494, 92771>>]],
      [key |-> <<7, 2, 1, 4, 1, 0, 3>>, train |-> {1, 2, 3, 5, 6},
       summed   |-> [n_iter |-> 9, p |-> <<9396, 7496, 15418, 37303, 12737, 88737, 62789>>],
       averaged |-> [n_iter |-> 8, p |-> <<9398, 7491, 15429, 37303, 12740, 88736, 62792>>]],
      [key |-> <<7, 2, 1, 4, 1, 0, 4>>, train |-> {1, 2, 3, 5, 6},
       summed   |-> [n_iter |-> 9, p |-> <<5088, 16872, 13407, 8910, 20094, 86135, 93361>>],
       averaged |-> [n_iter |-> 8, p |-> <<5088, 16872, 13404, 8907, 20086, 86134, 93360>>]],
      [key |-> <<7, 2, 2, 0, 0, 0, 3>>, train |-> {1, 2, 3, 5, 6},
       summed   |-> [n_iter |-> 9, p |-> <<7690, 9485, 26132, 26459, 11071, 86406, 65834>>],
       averaged |-> [n_iter |-> 8, p |-> <<7684, 9482, 26124, 26463, 11083, 86406, 65855>>]],
      [key |-> <<7, 2, 2, 0, 0, 0, 4>>, train |-> {1, 2, 3, 5, 6},
       summed   |-> [n_iter |-> 9, p |-> <<6735, 16061, 19788, 27609, 21443, 83993, 77080>>],
       averaged |-> [n_iter |-> 8, p |-> <<6733, 16061, 19786, 27609, 21443, 83993, 77080>>]],
      [key |-> <<7, 2, 2, 1, 0, 0, 3>>, train |-> {1, 2, 3, 5, 6},
       summed   |-> [n_iter |-> 8, p |-> <<7874, 10469, 25511, 26127, 11349, 86200, 70128>>],
       averaged |-> [n_iter |-> 8, p |-> <<7874, 10469, 25511, 26127, 11349, 86200, 70128>>]],
      [key |-> <<7, 2, 2, 1, 0, 0, 4>>, train |-> {1, 2, 3, 5, 6},
       summed   |-> [n_iter |-> 8, p |-> <<6319, 16302, 20964, 24518, 20465, 83988, 77493>>],
       averaged |-> [n_iter |-> 8, p |-> <<6319, 16302, 20964, 24518, 20465, 83988, 77493>>]],
      [key |-> <<7, 2, 2, 2, 0, 0, 3>>, train |-> {1, 2, 3, 5, 6},
       summed   |-> [n_iter |-> 10, p |-> <<6366, 7647, 17805, 18416, 9451, 89683, 76933>>],
       averaged |-> [n_iter |-> 9, p |-> <<6367, 7647, 17802, 18410, 9447, 89683, 76933>>]],
      [key |-> <<7, 2, 2, 2, 0, 0, 4>>, train |-> {1, 2, 3, 5, 6},
       summed   |-> [n_iter |-> 9, p |-> <<6600, 10827, 10379, 21117, 15281, 89228, 84845>>],
       averaged |-> [n_iter |-> 8, p |-> <<6597, 10824, 10383, 21114, 15283, 89228, 84848>>]],
      [key |-> <<7, 2, 2, 3, 0, 0, 3>>, train |-> {1, 2, 3, 5, 6},
       summed   |-> [n_iter |-> 9, p |-> <<7035, 7057, 19157, 13551, 12964, 88446, 65234>>],
       averaged |-> [n_iter |-> 8, p |-> <<7031, 7053, 19147, 13545, 12966, 88448, 65248>>]],
      [key |-> <<7, 2, 2, 3, 0, 0, 4>>, train |-> {1, 2, 3, 5, 6},
       summed   |-> [n_iter |-> 10, p |-> <<5574, 13431, 14480, 15939, 24244, 85567, 77951>>],
       averaged |-> [n_iter |-> 9, p |-> <<5572, 13432, 14479, 15937, 24242, 85567, 77949>>]],
      [key |-> <<7, 2, 2, 4, 0, 0, 3>>, train |-> {1, 2, 3, 5, 6},
       summed   |-> [n_iter |-> 9, p |-> <<7995, 6708, 16136, 36083, 12039, 89280, 64082>>],
       averaged |-> [n_iter |-> 8, p |-> <<7990, 6707, 16125, 36087, 12048, 89280, 64101>>]],
      [key |-> <<7, 2, 2, 4, 0, 0, 4>>, train |-> {1, 2, 3, 5, 6},
       summed   |-> [n_iter |-> 9, p |-> <<3365, 15799, 14197, 10193, 18873, 86941, 92531>>],
       averaged |-> [n_iter |-> 8, p |-> <<3365, 15800, 14191, 10192, 18869, 86940, 92530>>]],
      [key |-> <<7, 3, 0, 0, 0, 0, 3>>, train |-> {1, 2, 4, 5, 6},
       summed   |-> [n_iter |-> 9, p |-> <<14122, 7975, 50550, 33191, 81791, 81351, 84124>>],
       averaged |-> [n_iter |-> 9, p |-> <<14122, 7975, 50550, 33191, 81791, 81351, 84124>>]],
      [key |-> <<7, 3, 0, 0, 0, 0, 4>>, train |-> {1, 2, 4, 5, 6},
       summed   |-> [n_iter |-> 7, p |-> <<11795, 14954, 73091, 21672, 83982, 83737, 93275>>],
       averaged |-> [n_iter |-> 7, p |-> <<11795, 14954, 73091, 21672, 83982, 83737, 93275>>]],
      [key |-> <<7, 3, 0, 0, 0, 1, 3>>, train |-> {1, 2, 4, 5, 6},
       summed   |-> [n_iter |-> 9, p |-> <<11016, 9244, 54395, 33624, 82101, 81976, 85293>>],
       averaged |-> [n_iter |-> 7, p |-> <<11018, 9233, 54407, 33615, 82101, 81973, 85294>>]],
      [key |-> <<7, 3, 0, 0, 0, 1, 4>>, train |-> {1, 2, 4, 5, 6},
       summed   |-> [n_iter |-> 9, p |-> <<9220, 16287, 74183, 22132, 84385, 83856, 93553>>],
       averaged |-> [n_iter |-> 8, p |-> <<9224, 16291, 74187, 22123, 84384, 83851, 93553>>]],
      [key |-> <<7, 3, 0, 0, 1, 0, 3>>, train |-> {1, 2, 4, 5, 6},
       summed   |-> [n_iter |-> 9, p |-> <<10791, 9117, 54863, 34043, 82333, 81699, 84947>>],
       averaged |-> [n_iter |-> 9, p |-> <<10791, 9117, 54863, 34043, 82333, 81699, 84947>>]],
      [key |-> <<7, 3, 0, 0, 1, 0, 4>>, train |-> {1, 2, 4, 5, 6},
       summed   |-> [n_iter |-> 9, p |-> <<8929, 16427, 74389, 22219, 84608, 83675, 93548>>],
       averaged |-> [n_iter |-> 8, p |-> <<8935, 16431, 74391, 22210, 84606, 83669, 93548>>]],
      [key |-> <<7, 3, 0, 1, 1, 0, 3>>, train |-> {1, 2, 4, 5, 6},
       summed   |-> [n_iter |-> 9, p |-> <<10483, 9138, 52495, 34182, 83110, 81023, 84136>>],
       averaged |-> [n_iter |-> 8, p |-> <<10486, 9134, 52512, 34188, 83111, 81023, 84138>>]],
      [key |-> <<7, 3, 0, 1, 1, 0, 4>>, train |-> {1, 2, 4, 5, 6},
       summed   |-> [n_iter |-> 9, p |-> <<8467, 17021, 80591, 20388, 84562, 84854, 91519>>],
       averaged |-> [n_iter |-> 8, p |-> <<8469, 17021, 80589, 20386, 84560, 84853, 91519>>]],
      [key |-> <<7, 3, 0, 2, 1, 0, 3>>, train |-> {1, 2, 4, 5, 6},
       summed   |-> [n_iter |-> 9, p |-> <<9047, 9363, 40022, 29307, 82518, 85673, 93081>>],
       averaged |-> [n_iter |-> 9, p |-> <<9047, 9363, 40022, 29307, 82518, 85673, 93081>>]],
      [key |-> <<7, 3, 0, 2, 1, 0, 4>>, train |-> {1, 2, 4, 5, 6},
       summed   |-> [n_iter |-> 9, p |-> <<8085, 15086, 81749, 19722, 83810, 87596, 95725>>],
       averaged |-> [n_iter |-> 8, p |-> <<8090, 15086, 81746, 19718, 83806, 87592, 95724>>]],
      [key |-> <<7, 3, 0, 3, 1, 0, 3>>, train |-> {1, 2, 4, 5, 6},
       summed   |-> [n_iter |-> 9, p |-> <<8883, 7573, 41004, 23180, 85981, 87596, 88379>>],
       averaged |-> [n_iter |-> 9, p |-> <<8883, 7573, 41004, 23180, 85981, 87596, 88379>>]],
      [key |-> <<7, 3, 0, 3, 1, 0, 4>>, train |-> {1, 2, 4, 5, 6},
       summed   |-> [n_iter |-> 9, p |-> <<7474, 12522, 56284, 17257, 87946, 87219, 93727>>],
       averaged |-> [n_iter |-> 8, p |-> <<7474, 12524, 56284, 17257, 87944, 87217, 93726>>]],
      [key |-> <<7, 3, 1, 0, 0, 0, 3>>, train |-> {1, 2, 4, 5, 6},
       summed   |-> [n_iter |-> 9, p |-> <<11016, 9244, 54395, 33624, 82101, 81976, 85293>>],
       averaged |-> [n_iter |-> 7, p |-> <<11018, 9233, 54407, 33615, 82101, 81973, 85294>>]],
      [key |-> <<7, 3, 1, 0, 0, 0, 4>>, train |-> {1, 2, 4, 5, 6},
       summed   |-> [n_iter |-> 9, p |-> <<9220, 16287, 74183, 22132, 84385, 83856, 93553>>],
       averaged |-> [n_iter |-> 8, p |-> <<9224, 16291, 74187, 22123, 84384, 83851, 93553>>]],
      [key |-> <<7, 3, 1, 0, 0, 1, 3>>, train |-> {1, 2, 4, 5, 6},
       summed   |-> [n_iter |-> 8, p |-> <<12336, 9251, 52733, 33128, 81873, 81649, 84714>>],
       averaged |-> [n_iter |-> 7, p |-> <<12339, 9253, 52727, 33123, 81869, 81648, 84712>>]],
      [key |-> <<7, 3, 1, 0, 0, 1, 4>>, train |-> {1, 2, 4, 5, 6},
       summed   |-> [n_iter |-> 7, p |-> <<11014, 15616, 73060, 21749, 84085, 83661, 93286>>],
       averaged |-> [n_iter |-> 7, p |-> <<11014, 15616, 73060, 21749, 84085, 83661, 93286>>]],
      [key |-> <<7, 3, 1, 0, 0, 2, 3>>, train |-> {1, 2, 4, 5, 6},
       summed   |-> [n_iter |-> 8, p |-> <<14247, 7832, 50401, 33228, 81793, 81335, 84090>>],
       averaged |-> [n_iter |-> 7, p |-> <<14247, 7834, 50397, 33229, 81789, 81329, 84085>>]],
      [key |-> <<7, 3, 1, 0, 0, 2, 4>>, train |-> {1, 2, 4, 5, 6},
       summed   |-> [n_iter |-> 7, p |-> <<13130, 13222, 73975, 21679, 83853, 84125, 93425>>],
       averaged |-> [n_iter |-> 7, p |-> <<13130, 13222, 73975, 21679, 83853, 84125, 93425>>]],
      [key |-> <<7, 3, 1, 0, 1, 0, 3>>, train |-> {1, 2, 4, 5, 6},
       summed   |-> [n_iter |-> 9, p |-> <<12989, 8568, 52153, 33561, 82069, 81186, 84009>>],
       averaged |-> [n_iter |-> 7, p |-> <<12997, 8566, 52155, 33556, 82065, 81181, 84007>>]],
      [key |-> <<7, 3, 1, 0, 1, 0, 4>>, train |-> {1, 2, 4, 5, 6},
       summed   |-> [n_iter |-> 7, p |-> <<11753, 14676, 73610, 21786, 84226, 83629, 93316>>],
       averaged |-> [n_iter |-> 6, p |-> <<11752, 14673, 73612, 21784, 84233, 83623, 93316>>]],
      [key |-> <<7, 3, 1, 1, 0, 0, 3>>, train |-> {1, 2, 4, 5, 6},
       summed   |-> [n_iter |-> 9, p |-> <<10657, 9269, 52035, 33748, 82877, 81341, 84450>>],
       averaged |-> [n_iter |-> 8, p |-> <<10660, 9262, 52051, 33747, 82879, 81341, 84453>>]],
      [key |-> <<7, 3, 1, 1, 0, 0, 4>>, train |-> {1, 2, 4, 5, 6},
       summed   |-> [n_iter |-> 8, p |-> <<8760, 16879, 80443, 20314, 84398, 84966, 91529>>],
       averaged |-> [n_iter |-> 7, p |-> <<8762, 16878, 80442, 20310, 84396, 84965, 91528>>]],
      [key |-> <<7, 3, 1, 1, 1, 0, 3>>, train |-> {1, 2, 4, 5, 6},
       summed   |-> [n_iter |-> 9, p |-> <<12600, 8553, 49754, 33752, 82902, 80495, 83066>>],
       averaged |-> [n_iter |-> 8, p |-> <<12606, 8549, 49759, 33749, 82903, 80493, 83067>>]],
      [key |-> <<7, 3, 1, 1, 1, 0, 4>>, train |-> {1, 2, 4, 5, 6},
       summed   |-> [n_iter |-> 8, p |-> <<11249, 15150, 80262, 19965, 84191, 84900, 91088>>],
       averaged |-> [n_iter |-> 7, p |-> <<11249, 15145, 80261, 19962, 84187, 84904, 91089>>]],
      [key |-> <<7, 3, 1, 2, 0, 0, 3>>, train |-> {1, 2, 4, 5, 6},
       summed   |-> [n_iter |-> 9, p |-> <<9292, 9387, 39664, 29093, 82385, 85767, 93157>>],
       averaged |-> [n_iter |-> 9, p |-> <<9292, 9387, 39664, 29093, 82385, 85767, 93157>>]],
      [key |-> <<7, 3, 1, 2, 0, 0, 4>>, train |-> {1, 2, 4, 5, 6},
       summed   |-> [n_iter |-> 8, p |-> <<8385, 14951, 81749, 19645, 83740, 87606, 95709>>],
       averaged |-> [n_iter |-> 8, p |-> <<8385, 14951, 81749, 19645, 83740, 87606, 95709>>]],
      [key |-> <<7, 3, 1, 2, 1, 0, 3>>, train |-> {1, 2, 4, 5, 6},
       summed   |-> [n_iter |-> 9, p |-> <<10898, 8741, 37292, 28843, 82327, 85352, 92856>>],
       averaged |-> [n_iter |-> 8, p |-> <<10900, 8742, 37295, 28844, 82326, 85351, 92855>>]],
      [key |-> <<7, 3, 1, 2, 1, 0, 4>>, train |-> {1, 2, 4, 5, 6},
       summed   |-> [n_iter |-> 9, p |-> <<10499, 13633, 82187, 19230, 83574, 87518, 95590>>],
       averaged |-> [n_iter |-> 7, p |-> <<10494, 13622, 82184, 19222, 83574, 87525, 95594>>]],
      [key |-> <<7, 3, 1, 3, 0, 0, 3>>, train |-> {1, 2, 4, 5, 6},
       summed   |-> [n_iter |-> 9, p |-> <<9108, 7576, 40616, 23007, 85843, 87699, 88499>>],
       averaged |-> [n_iter |-> 8, p |-> <<9111, 7576, 40628, 23013, 85843, 87699, 88499>>]],
      [key |-> <<7, 3, 1, 3, 0, 0, 4>>, train |-> {1, 2, 4, 5, 6},
       summed   |-> [n_iter |-> 9, p |-> <<7692, 12425, 55978, 17178, 87786, 87352, 93730>>],
       averaged |-> [n_iter |-> 8, p |-> <<7692, 12426, 55981, 17177, 87786, 87350, 93730>>]],
      [key |-> <<7, 3, 1, 3, 1, 0, 3>>, train |-> {1, 2, 4, 5, 6},
       summed   |-> [n_iter |-> 9, p |-> <<10476, 7146, 38575, 22714, 85840, 87269, 87800>>],
       averaged |-> [n_iter |-> 8, p |-> <<10486, 7152, 38572, 22710, 85837, 87265, 87798>>]],
      [key |-> <<7, 3, 1, 3, 1, 0, 4>>, train |-> {1, 2, 4, 5, 6},
       summed   |-> [n_iter |-> 8, p |-> <<9444, 11363, 55338, 16867, 87710, 87174, 93544>>],
       averaged |-> [n_iter |-> 8, p |-> <<9444, 11363, 55338, 16867, 87710, 87174, 93544>>]],
      [key |-> <<7, 3, 2, 0, 0, 0, 3>>, train |-> {1, 2, 4, 5, 6},
       summed   |-> [n_iter |-> 9, p |-> <<11962, 6409, 53345, 34897, 82433, 82055, 85340>>],
       averaged |-> [n_iter |-> 9, p |-> <<11962, 6409, 53345, 34897, 82433, 82055, 85340>>]],
      [key |-> <<7, 3, 2, 0, 0, 0, 4>>, train |-> {1, 2, 4, 5, 6},
       summed   |-> [n_iter |-> 9, p |-> <<9714, 12489, 78598, 22898, 84586, 85346, 94433>>],
       averaged |-> [n_iter |-> 8, p |-> <<9717, 12493, 78597, 22891, 84582, 85342, 94433>>]],
      [key |-> <<7, 3, 2, 1, 0, 0, 3>>, train |-> {1, 2, 4, 5, 6},
       summed   |-> [n_iter |-> 9, p |-> <<11581, 6450, 51409, 35021, 83104, 81528, 84515>>],
       averaged |-> [n_iter |-> 9, p |-> <<11581, 6450, 51409, 35021, 83104, 81528, 84515>>]],
      [key |-> <<7, 3, 2, 1, 0, 0, 4>>, train |-> {1, 2, 4, 5, 6},
       summed   |-> [n_iter |-> 9, p |-> <<9156, 12953, 84035, 21227, 84655, 86455, 92262>>],
       averaged |-> [n_iter |-> 8, p |-> <<9160, 12959, 84037, 21216, 84652, 86451, 92261>>]],
      [key |-> <<7, 3, 2, 2, 0, 0, 3>>, train |-> {1, 2, 4, 5, 6},
       summed   |-> [n_iter |-> 10, p |-> <<9920, 6857, 39039, 30288, 82748, 85875, 93267>>],
       averaged |-> [n_iter |-> 9, p |-> <<9920, 6858, 39035, 30289, 82748, 85874, 93267>>]],
      [key |-> <<7, 3, 2, 2, 0, 0, 4>>, train |-> {1, 2, 4, 5, 6},
       summed   |-> [n_iter |-> 10, p |-> <<8664, 11900, 86681, 20302, 84388, 88369, 96082>>],
       averaged |-> [n_iter |-> 8, p |-> <<8667, 11904, 86677, 20305, 84383, 88364, 96080>>]],
      [key |-> <<7, 3, 2, 3, 0, 0, 3>>, train |-> {1, 2, 4, 5, 6},
       summed   |-> [n_iter |-> 10, p |-> <<9783, 5495, 40445, 24018, 86010, 87793, 88558>>],
       averaged |-> [n_iter |-> 8, p |-> <<9783, 5497, 40444, 24027, 86002, 87787, 88549>>]],
      [key |-> <<7, 3, 2, 3, 0, 0, 4>>, train |-> {1, 2, 4, 5, 6},
       summed   |-> [n_iter |-> 9, p |-> <<8067, 9849, 62222, 17949, 87833, 88258, 94439>>],
       averaged |-> [n_iter |-> 8, p |-> <<8069, 9851, 62220, 17952, 87830, 88255, 94437>>]],
      [key |-> <<7, 4, 0, 0, 0, 0, 3>>, train |-> {1, 2, 5, 6, 7},
       summed   |-> [n_iter |-> 9, p |-> <<12948, 10627, 85851, 81471, 89445, 87898, 87295>>],
       averaged |-> [n_iter |-> 7, p |-> <<12945, 10623, 85857, 81474, 89446, 87899, 87294>>]],
      [key |-> <<7, 4, 0, 0, 0, 0, 4>>, train |-> {1, 2, 5, 6, 7},
       summed   |-> [n_iter |-> 8, p |-> <<10938, 12966, 84129, 71658, 89583, 84859, 89705>>],
       averaged |-> [n_iter |-> 8, p |-> <<10938, 12966, 84129, 71658, 89583, 84859, 89705>>]],
      [key |-> <<7, 4, 0, 0, 0, 1, 3>>, train |-> {1, 2, 5, 6, 7},
       summed   |-> [n_iter |-> 8, p |-> <<9500, 12577, 88292, 81431, 89523, 88749, 88614>>],
       averaged |-> [n_iter |-> 7, p |-> <<9500, 12575, 88297, 81435, 89526, 88753, 88617>>]],
      [key |-> <<7, 4, 0, 0, 0, 1, 4>>, train |-> {1, 2, 5, 6, 7},
       summed   |-> [n_iter |-> 9, p |-> <<8365, 14539, 84301, 75364, 90615, 85211, 89819>>],
       averaged |-> [n_iter |-> 8, p |-> <<8363, 14537, 84304, 75364, 90617, 85211, 89821>>]],
      [key |-> <<7, 4, 0, 0, 1, 0, 3>>, train |-> {1, 2, 5, 6, 7},
       summed   |-> [n_iter |-> 8, p |-> <<9019, 12832, 88707, 81662, 89682, 88812, 88733>>],
       averaged |-> [n_iter |-> 7, p |-> <<9019, 12828, 88715, 81667, 89686, 88820, 88740>>]],
      [key |-> <<7, 4, 0, 0, 1, 0, 4>>, train |-> {1, 2, 5, 6, 7},
       summed   |-> [n_iter |-> 8, p |-> <<7987, 14775, 84457, 76028, 90940, 85098, 89822>>],
       averaged |-> [n_iter |-> 7, p |-> <<7984, 14771, 84458, 76023, 90937, 85106, 89825>>]],
      [key |-> <<7, 4, 0, 1, 1, 0, 3>>, train |-> {1, 2, 5, 6, 7},
       summed   |-> [n_iter |-> 9, p |-> <<8433, 12890, 86090, 80800, 89715, 87002, 91298>>],
       averaged |-> [n_iter |-> 8, p |-> <<8431, 12890, 86094, 80805, 89717, 87007, 91300>>]],
      [key |-> <<7, 4, 0, 1, 1, 0, 4>>, train |-> {1, 2, 5, 6, 7},
       summed   |-> [n_iter |-> 9, p |-> <<7854, 14632, 81807, 76830, 90146, 83751, 92374>>],
       averaged |-> [n_iter |-> 8, p |-> <<7850, 14630, 81815, 76840, 90153, 83758, 92379>>]],
      [key |-> <<7, 4, 0, 2, 1, 0, 3>>, train |-> {1, 2, 5, 6, 7},
       summed   |-> [n_iter |-> 9, p |-> <<7864, 12440, 81224, 75977, 88294, 89376, 91872>>],
       averaged |-> [n_iter |-> 9, p |-> <<7864, 12440, 81224, 75977, 88294, 89376, 91872>>]],
      [key |-> <<7, 4, 0, 2, 1, 0, 4>>, train |-> {1, 2, 5, 6, 7},
       summed   |-> [n_iter |-> 8, p |-> <<8042, 12730, 68774, 76975, 88335, 88798, 91708>>],
       averaged |-> [n_iter |-> 8, p |-> <<8042, 12730, 68774, 76975, 88335, 88798, 91708>>]],
      [key |-> <<7, 4, 0, 3, 1, 0, 3>>, train |-> {1, 2, 5, 6, 7},
       summed   |-> [n_iter |-> 8, p |-> <<7807, 10820, 77759, 68267, 91187, 90463, 90412>>],
       averaged |-> [n_iter |-> 7, p |-> <<7806, 10822, 77766, 68278, 91192, 90468, 90417>>]],
      [key |-> <<7, 4, 0, 3, 1, 0, 4>>, train |-> {1, 2, 5, 6, 7},
       summed   |-> [n_iter |-> 8, p |-> <<6969, 12237, 71059, 61305, 92124, 87769, 91298>>],
       averaged |-> [n_iter |-> 7, p |-> <<6967, 12238, 71062, 61318, 92128, 87771, 91298>>]],
      [key |-> <<7, 4, 0, 4, 1, 0, 3>>, train |-> {1, 2, 5, 6, 7},
       summed   |-> [n_iter |-> 8, p |-> <<7807, 10820, 77230, 85403, 91187, 90463, 90412>>],
       averaged |-> [n_iter |-> 7, p |-> <<7806, 10822, 77238, 85411, 91192, 90468, 90417>>]],
      [key |-> <<7, 4, 0, 4, 1, 0, 4>>, train |-> {1, 2, 5, 6, 7},
       summed   |-> [n_iter |-> 8, p |-> <<6516, 12639, 71533, 77021, 91184, 87622, 92465>>],
       averaged |-> [n_iter |-> 8, p |-> <<6516, 12639, 71533, 77021, 91184, 87622, 92465>>]],
      [key |-> <<7, 4, 1, 0, 0, 0, 3>>, train |-> {1, 2, 5, 6, 7},
       summed   |-> [n_iter |-> 8, p |-> <<9500, 12577, 88292, 81431, 89523, 88749, 88614>>],
       averaged |-> [n_iter |-> 7, p |-> <<9500, 12575, 88297, 81435, 89526, 88753, 88617>>]],
      [key |-> <<7, 4, 1, 0, 0, 0, 4>>, train |-> {1, 2, 5, 6, 7},
       summed   |-> [n_iter |-> 9, p |-> <<8365, 14539, 84301, 75364, 90615, 85211, 89819>>],
       averaged |-> [n_iter |-> 8, p |-> <<8363, 14537, 84304, 75364, 90617, 85211, 89821>>]],
      [key |-> <<7, 4, 1, 0, 0, 1, 3>>, train |-> {1, 2, 5, 6, 7},
       summed   |-> [n_iter |-> 9, p |-> <<11261, 11960, 86957, 80890, 89271, 88124, 87773>>],
       averaged |-> [n_iter |-> 7, p |-> <<11257, 11958, 86957, 80895, 89273, 88125, 87771>>]],
      [key |-> <<7, 4, 1, 0, 0, 1, 4>>, train |-> {1, 2, 5, 6, 7},
       summed   |-> [n_iter |-> 9, p |-> <<10059, 13764, 83925, 72578, 89871, 84767, 89626>>],
       averaged |-> [n_iter |-> 8, p |-> <<10054, 13760, 83937, 72569, 89878, 84764, 89634>>]],
      [key |-> <<7, 4, 1, 0, 0, 2, 3>>, train |-> {1, 2, 5, 6, 7},
       summed   |-> [n_iter |-> 8, p |-> <<13728, 9783, 85399, 82057, 89648, 87907, 87178>>],
       averaged |-> [n_iter |-> 7, p |-> <<13725, 9783, 85403, 82067, 89650, 87913, 87177>>]],
      [key |-> <<7, 4, 1, 0, 0, 2, 4>>, train |-> {1, 2, 5, 6, 7},
       summed   |-> [n_iter |-> 8, p |-> <<12190, 11365, 84866, 70993, 89292, 85358, 90021>>],
       averaged |-> [n_iter |-> 8, p |-> <<12190, 11365, 84866, 70993, 89292, 85358, 90021>>]],
      [key |-> <<7, 4, 1, 0, 1, 0, 3>>, train |-> {1, 2, 5, 6, 7},
       summed   |-> [n_iter |-> 9, p |-> <<11913, 11220, 86826, 81837, 89720, 88023, 87558>>],
       averaged |-> [n_iter |-> 7, p |-> <<11907, 11217, 86825, 81843, 89721, 88024, 87555>>]],
      [key |-> <<7, 4, 1, 0, 1, 0, 4>>, train |-> {1, 2, 5, 6, 7},
       summed   |-> [n_iter |-> 8, p |-> <<10677, 12901, 84549, 72539, 90013, 84828, 89792>>],
       averaged |-> [n_iter |-> 7, p |-> <<10670, 12890, 84549, 72536, 90015, 84827, 89794>>]],
      [key |-> <<7, 4, 1, 1, 0, 0, 3>>, train |-> {1, 2, 5, 6, 7},
       summed   |-> [n_iter |-> 8, p |-> <<8865, 12646, 85644, 80589, 89562, 86957, 91219>>],
       averaged |-> [n_iter |-> 8, p |-> <<8865, 12646, 85644, 80589, 89562, 86957, 91219>>]],
      [key |-> <<7, 4, 1, 1, 0, 0, 4>>, train |-> {1, 2, 5, 6, 7},
       summed   |-> [n_iter |-> 9, p |-> <<8219, 14406, 81788, 76089, 89821, 83890, 92352>>],
       averaged |-> [n_iter |-> 8, p |-> <<8215, 14405, 81795, 76098, 89827, 83896, 92355>>]],
      [key |-> <<7, 4, 1, 1, 1, 0, 3>>, train |-> {1, 2, 5, 6, 7},
       summed   |-> [n_iter |-> 8, p |-> <<11173, 11218, 83945, 81076, 89671, 86187, 90558>>],
       averaged |-> [n_iter |-> 7, p |-> <<11177, 11213, 83952, 81078, 89672, 86193, 90560>>]],
      [key |-> <<7, 4, 1, 1, 1, 0, 4>>, train |-> {1, 2, 5, 6, 7},
       summed   |-> [n_iter |-> 9, p |-> <<10372, 12860, 83558, 71890, 89135, 83925, 92091>>],
       averaged |-> [n_iter |-> 9, p |-> <<10372, 12860, 83558, 71890, 89135, 83925, 92091>>]],
      [key |-> <<7, 4, 1, 2, 0, 0, 3>>, train |-> {1, 2, 5, 6, 7},
       summed   |-> [n_iter |-> 8, p |-> <<8292, 12183, 80595, 75810, 88208, 89278, 91803>>],
       averaged |-> [n_iter |-> 8, p |-> <<8292, 12183, 80595, 75810, 88208, 89278, 91803>>]],
      [key |-> <<7, 4, 1, 2, 0, 0, 4>>, train |-> {1, 2, 5, 6, 7},
       summed   |-> [n_iter |-> 8, p |-> <<8429, 12527, 69694, 76079, 88124, 88726, 91717>>],
       averaged |-> [n_iter |-> 8, p |-> <<8429, 12527, 69694, 76079, 88124, 88726, 91717>>]],
      [key |-> <<7, 4, 1, 2, 1, 0, 3>>, train |-> {1, 2, 5, 6, 7},
       summed   |-> [n_iter |-> 8, p |-> <<10296, 10875, 77751, 75694, 88174, 88696, 91371>>],
       averaged |-> [n_iter |-> 8, p |-> <<10296, 10875, 77751, 75694, 88174, 88696, 91371>>]],
      [key |-> <<7, 4, 1, 2, 1, 0, 4>>, train |-> {1, 2, 5, 6, 7},
       summed   |-> [n_iter |-> 9, p |-> <<10237, 11434, 74191, 72071, 87580, 88177, 91737>>],
       averaged |-> [n_iter |-> 8, p |-> <<10234, 11430, 74212, 72054, 87583, 88177, 91743>>]],
      [key |-> <<7, 4, 1, 3, 0, 0, 3>>, train |-> {1, 2, 5, 6, 7},
       summed   |-> [n_iter |-> 8, p |-> <<8183, 10605, 77078, 67919, 91063, 90426, 90334>>],
       averaged |-> [n_iter |-> 7, p |-> <<8182, 10606, 77090, 67932, 91069, 90435, 90341>>]],
      [key |-> <<7, 4, 1, 3, 0, 0, 4>>, train |-> {1, 2, 5, 6, 7},
       summed   |-> [n_iter |-> 8, p |-> <<7273, 12038, 70805, 60461, 91878, 87857, 91299>>],
       averaged |-> [n_iter |-> 7, p |-> <<7269, 12040, 70810, 60463, 91879, 87858, 91300>>]],
      [key |-> <<7, 4, 1, 3, 1, 0, 3>>, train |-> {1, 2, 5, 6, 7},
       summed   |-> [n_iter |-> 8, p |-> <<10019, 9494, 74562, 67918, 91219, 89901, 89611>>],
       averaged |-> [n_iter |-> 7, p |-> <<10017, 9494, 74565, 67927, 91224, 89903, 89614>>]],
      [key |-> <<7, 4, 1, 3, 1, 0, 4>>, train |-> {1, 2, 5, 6, 7},
       summed   |-> [n_iter |-> 9, p |-> <<9041, 10753, 71183, 57220, 91454, 87583, 91272>>],
       averaged |-> [n_iter |-> 7, p |-> <<9037, 10753, 71213, 57203, 91458, 87596, 91286>>]],
      [key |-> <<7, 4, 1, 4, 0, 0, 3>>, train |-> {1, 2, 5, 6, 7},
       summed   |-> [n_iter |-> 8, p |-> <<8183, 10605, 76633, 85240, 91063, 90426, 90334>>],
       averaged |-> [n_iter |-> 7, p |-> <<8182, 10606, 76645, 85251, 91069, 90435, 90341>>]],
      [key |-> <<7, 4, 1, 4, 0, 0, 4>>, train |-> {1, 2, 5, 6, 7},
       summed   |-> [n_iter |-> 8, p |-> <<6808, 12441, 71205, 76568, 90978, 87682, 92467>>],
       averaged |-> [n_iter |-> 7, p |-> <<6803, 12441, 71212, 76577, 90982, 87695, 92474>>]],
      [key |-> <<7, 4, 1, 4, 1, 0, 3>>, train |-> {1, 2, 5, 6, 7},
       summed   |-> [n_iter |-> 8, p |-> <<10019, 9494, 74334, 85549, 91219, 89901, 89611>>],
       averaged |-> [n_iter |-> 7, p |-> <<10017, 9494, 74338, 85554, 91224, 89903, 89614>>]],
      [key |-> <<7, 4, 1, 4, 1, 0, 4>>, train |-> {1, 2, 5, 6, 7},
       summed   |-> [n_iter |-> 9, p |-> <<8570, 11037, 70230, 74732, 90549, 87556, 92484>>],
       averaged |-> [n_iter |-> 8, p |-> <<8569, 11037, 70232, 74731, 90549, 87555, 92484>>]],
      [key |-> <<7, 4, 2, 0, 0, 0, 3>>, train |-> {1, 2, 5, 6, 7},
       summed   |-> [n_iter |-> 8, p |-> <<10765, 9041, 88439, 85297, 91013, 89830, 89450>>],
       averaged |-> [n_iter |-> 8, p |-> <<10765, 9041, 88439, 85297, 91013, 89830, 89450>>]],
      [key |-> <<7, 4, 2, 0, 0, 0, 4>>, train |-> {1, 2, 5, 6, 7},
       summed   |-> [n_iter |-> 8, p |-> <<9261, 10752, 87305, 78411, 91132, 87628, 91221>>],
       averaged |-> [n_iter |-> 7, p |-> <<9258, 10749, 87309, 78419, 91137, 87631, 91224>>]],
      [key |-> <<7, 4, 2, 1, 0, 0, 3>>, train |-> {1, 2, 5, 6, 7},
       summed   |-> [n_iter |-> 8, p |-> <<10059, 9185, 86322, 84611, 90983, 88409, 91741>>],
       averaged |-> [n_iter |-> 7, p |-> <<10056, 9186, 86328, 84625, 90993, 88416, 91747>>]],
      [key |-> <<7, 4, 2, 1, 0, 0, 4>>, train |-> {1, 2, 5, 6, 7},
       summed   |-> [n_iter |-> 9, p |-> <<9003, 10757, 86464, 77905, 90469, 86867, 93025>>],
       averaged |-> [n_iter |-> 8, p |-> <<9000, 10754, 86469, 77911, 90474, 86869, 93028>>]],
      [key |-> <<7, 4, 2, 2, 0, 0, 3>>, train |-> {1, 2, 5, 6, 7},
       summed   |-> [n_iter |-> 8, p |-> <<9324, 9058, 81599, 80542, 89786, 90285, 92355>>],
       averaged |-> [n_iter |-> 8, p |-> <<9324, 9058, 81599, 80542, 89786, 90285, 92355>>]],
      [key |-> <<7, 4, 2, 2, 0, 0, 4>>, train |-> {1, 2, 5, 6, 7},
       summed   |-> [n_iter |-> 8, p |-> <<9095, 9631, 80712, 77116, 89232, 89946, 92736>>],
       averaged |-> [n_iter |-> 8, p |-> <<9095, 9631, 80712, 77116, 89232, 89946, 92736>>]],
      [key |-> <<7, 4, 2, 3, 0, 0, 3>>, train |-> {1, 2, 5, 6, 7},
       summed   |-> [n_iter |-> 8, p |-> <<9268, 7919, 78918, 74557, 92122, 91179, 90920>>],
       averaged |-> [n_iter |-> 7, p |-> <<9267, 7924, 78922, 74576, 92127, 91186, 90923>>]],
      [key |-> <<7, 4, 2, 3, 0, 0, 4>>, train |-> {1, 2, 5, 6, 7},
       summed   |-> [n_iter |-> 8, p |-> <<8086, 9243, 77060, 65860, 92226, 89491, 92292>>],
       averaged |-> [n_iter |-> 7, p |-> <<8090, 9245, 77065, 65887, 92234, 89499, 92296>>]],
      [key |-> <<7, 4, 2, 4, 0, 0, 3>>, train |-> {1, 2, 5, 6, 7},
       summed   |-> [n_iter |-> 8, p |-> <<9268, 7919, 78892, 87780, 92122, 91179, 90920>>],
       averaged |-> [n_iter |-> 7, p |-> <<9267, 7924, 78896, 87791, 92127, 91186, 90923>>]],
      [key |-> <<7, 4, 2, 4, 0, 0, 4>>, train |-> {1, 2, 5, 6, 7},
       summed   |-> [n_iter |-> 9, p |-> <<7583, 9609, 76298, 79372, 91535, 89421, 93256>>],
       averaged |-> [n_iter |-> 7, p |-> <<7580, 9610, 76308, 79365, 91538, 89424, 93262>>]],
      [key |-> <<8, 2, 0, 0, 0, 0, 3>>, train |-> {1, 2, 3, 6, 7, 8},
       summed   |-> [n_iter |-> 9, p |-> <<6864, 17046, 18815, 45659, 72627, 13675, 79395, 92405>>],
       averaged |-> [n_iter |-> 8, p |-> <<6863, 17044, 18815, 45660, 72629, 13675, 79395, 92406>>]],
      [key |-> <<8, 2, 0, 0, 0, 0, 4>>, train |-> {1, 2, 3, 6, 7, 8},
       summed   |-> [n_iter |-> 9, p |-> <<9230, 9493, 28385, 52052, 51244, 22114, 75818, 89570>>],
       averaged |-> [n_iter |-> 9, p |-> <<9230, 9493, 28385, 52052, 51244, 22114, 75818, 89570>>]],
      [key |-> <<8, 2, 1, 0, 0, 0, 3>>, train |-> {1, 2, 3, 6, 7, 8},
       summed   |-> [n_iter |-> 8, p |-> <<5523, 17792, 18914, 45433, 72136, 14018, 79525, 92353>>],
       averaged |-> [n_iter |-> 7, p |-> <<5526, 17793, 18915, 45434, 72136, 14021, 79524, 92352>>]],
      [key |-> <<8, 2, 1, 0, 0, 0, 4>>, train |-> {1, 2, 3, 6, 7, 8},
       summed   |-> [n_iter |-> 9, p |-> <<7255, 10378, 28312, 52510, 50886, 22865, 75821, 89774>>],
       averaged |-> [n_iter |-> 8, p |-> <<7257, 10381, 28316, 52513, 50889, 22870, 75820, 89773>>]],
      [key |-> <<8, 2, 2, 0, 0, 0, 3>>, train |-> {1, 2, 3, 6, 7, 8},
       summed   |-> [n_iter |-> 8, p |-> <<5487, 14232, 19473, 47758, 74813, 14735, 80128, 92909>>],
       averaged |-> [n_iter |-> 7, p |-> <<5486, 14231, 19474, 47760, 74814, 14737, 80132, 92910>>]],
      [key |-> <<8, 2, 2, 0, 0, 0, 4>>, train |-> {1, 2, 3, 6, 7, 8},
       summed   |-> [n_iter |-> 9, p |-> <<7693, 7696, 29109, 53551, 51934, 23555, 76056, 89917>>],
       averaged |-> [n_iter |-> 8, p |-> <<7693, 7697, 29112, 53553, 51939, 23555, 76056, 89917>>]],
      [key |-> <<8, 3, 0, 0, 0, 0, 3>>, train |-> {1, 2, 3, 5, 7, 8},
       summed   |-> [n_iter |-> 8, p |-> <<9837, 14094, 17351, 25236, 33562, 69603, 77937, 84639>>],
       averaged |-> [n_iter |-> 8, p |-> <<9837, 14094, 17351, 25236, 33562, 69603, 77937, 84639>>]],
      [key |-> <<8, 3, 0, 0, 0, 0, 4>>, train |-> {1, 2, 3, 5, 7, 8},
       summed   |-> [n_iter |-> 10, p |-> <<10730, 12785, 20938, 29472, 30873, 75580, 77715, 84622>>],
       averaged |-> [n_iter |-> 8, p |-> <<10739, 12782, 20936, 29470, 30876, 75574, 77716, 84623>>]],
      [key |-> <<8, 3, 1, 0, 0, 0, 3>>, train |-> {1, 2, 3, 5, 7, 8},
       summed   |-> [n_iter |-> 8, p |-> <<7621, 15240, 17921, 25201, 33531, 70154, 78396, 84450>>],
       averaged |-> [n_iter |-> 8, p |-> <<7621, 15240, 17921, 25201, 33531, 70154, 78396, 84450>>]],
      [key |-> <<8, 3, 1, 0, 0, 0, 4>>, train |-> {1, 2, 3, 5, 7, 8},
       summed   |-> [n_iter |-> 9, p |-> <<8401, 13872, 21269, 29972, 31133, 75842, 77871, 84791>>],
       averaged |-> [n_iter |-> 8, p |-> <<8401, 13875, 21271, 29974, 31130, 75846, 77870, 84790>>]],
      [key |-> <<8, 3, 2, 0, 0, 0, 3>>, train |-> {1, 2, 3, 5, 7, 8},
       summed   |-> [n_iter |-> 9, p |-> <<8009, 11797, 18557, 27390, 33976, 72023, 78507, 85324>>],
       averaged |-> [n_iter |-> 7, p |-> <<8007, 11794, 18550, 27379, 33976, 72015, 78509, 85326>>]],
      [key |-> <<8, 3, 2, 0, 0, 0, 4>>, train |-> {1, 2, 3, 5, 7, 8},
       summed   |-> [n_iter |-> 9, p |-> <<8857, 10527, 22500, 32038, 31097, 78010, 78179, 85332>>],
       averaged |-> [n_iter |-> 7, p |-> <<8857, 10521, 22486, 32026, 31079, 78007, 78173, 85330>>]],
      [key |-> <<8, 4, 0, 0, 0, 0, 3>>, train |-> {1, 2, 4, 5, 6, 8},
       summed   |-> [n_iter |-> 9, p |-> <<8996, 9779, 31219, 33810, 82830, 80402, 82197, 84179>>],
       averaged |-> [n_iter |-> 7, p |-> <<8994, 9778, 31208, 33805, 82820, 80392, 82192, 84178>>]],
      [key |-> <<8, 4, 0, 0, 0, 0, 4>>, train |-> {1, 2, 4, 5, 6, 8},
       summed   |-> [n_iter |-> 7, p |-> <<8809, 11725, 52878, 31109, 83861, 86726, 89688, 77777>>],
       averaged |-> [n_iter |-> 7, p |-> <<8809, 11725, 52878, 31109, 83861, 86726, 89688, 77777>>]],
      [key |-> <<8, 4, 1, 0, 0, 0, 3>>, train |-> {1, 2, 4, 5, 6, 8},
       summed   |-> [n_iter |-> 9, p |-> <<6663, 11040, 32225, 34375, 82599, 81103, 82542, 84217>>],
       averaged |-> [n_iter |-> 7, p |-> <<6663, 11043, 32218, 34372, 82592, 81096, 82538, 84216>>]],
      [key |-> <<8, 4, 1, 0, 0, 0, 4>>, train |-> {1, 2, 4, 5, 6, 8},
       summed   |-> [n_iter |-> 9, p |-> <<6517, 13011, 52991, 31676, 83637, 87000, 89688, 78153>>],
       averaged |-> [n_iter |-> 7, p |-> <<6514, 13006, 52982, 31674, 83638, 86995, 89685, 78151>>]],
      [key |-> <<8, 4, 2, 0, 0, 0, 3>>, train |-> {1, 2, 4, 5, 6, 8},
       summed   |-> [n_iter |-> 9, p |-> <<7331, 7980, 32697, 35578, 82965, 81185, 83066, 84961>>],
       averaged |-> [n_iter |-> 8, p |-> <<7331, 7981, 32696, 35581, 82972, 81186, 83069, 84966>>]],
      [key |-> <<8, 4, 2, 0, 0, 0, 4>>, train |-> {1, 2, 4, 5, 6, 8},
       summed   |-> [n_iter |-> 9, p |-> <<7083, 9777, 59083, 32633, 84237, 88437, 91280, 77835>>],
       averaged |-> [n_iter |-> 7, p |-> <<7085, 9780, 59085, 32639, 84242, 88438, 91281, 77841>>]],
      [key |-> <<9, 2, 0, 0, 0, 0, 3>>, train |-> {1, 2, 3, 5, 6, 8, 9},
       summed   |-> [n_iter |-> 10, p |-> <<5348, 12976, 16807, 36537, 33045, 21793, 56150, 77921, 86092>>],
       averaged |-> [n_iter |-> 8, p |-> <<5351, 12969, 16814, 36523, 33049, 21799, 56171, 77916, 86086>>]],
      [key |-> <<9, 2, 0, 0, 0, 0, 4>>, train |-> {1, 2, 3, 5, 6, 8, 9},
       summed   |-> [n_iter |-> 9, p |-> <<10372, 6528, 5207, 66717, 31237, 13313, 16059, 87471, 85866>>],
       averaged |-> [n_iter |-> 7, p |-> <<10363, 6526, 5206, 66725, 31236, 13310, 16054, 87474, 85867>>]],
      [key |-> <<9, 2, 1, 0, 0, 0, 3>>, train |-> {1, 2, 3, 5, 6, 8, 9},
       summed   |-> [n_iter |-> 10, p |-> <<4437, 13414, 16994, 36413, 33141, 21948, 56572, 77886, 86141>>],
       averaged |-> [n_iter |-> 9, p |-> <<4436, 13414, 16995, 36414, 33142, 21949, 56572, 77886, 86140>>]],
      [key |-> <<9, 2, 1, 0, 0, 0, 4>>, train |-> {1, 2, 3, 5, 6, 8, 9},
       summed   |-> [n_iter |-> 8, p |-> <<8100, 7293, 5306, 66984, 31660, 13603, 16369, 87633, 85982>>],
       averaged |-> [n_iter |-> 7, p |-> <<8099, 7294, 5305, 66990, 31660, 13602, 16365, 87636, 85982>>]],
      [key |-> <<9, 2, 2, 0, 0, 0, 3>>, train |-> {1, 2, 3, 5, 6, 8, 9},
       summed   |-> [n_iter |-> 10, p |-> <<4355, 10653, 17279, 37218, 33657, 22744, 57221, 78518, 86007>>],
       averaged |-> [n_iter |-> 9, p |-> <<4356, 10647, 17285, 37209, 33664, 22744, 57242, 78519, 86012>>]],
      [key |-> <<9, 2, 2, 0, 0, 0, 4>>, train |-> {1, 2, 3, 5, 6, 8, 9},
       summed   |-> [n_iter |-> 9, p |-> <<8726, 5313, 5492, 67379, 31864, 14226, 16803, 87773, 85980>>],
       averaged |-> [n_iter |-> 9, p |-> <<8726, 5313, 5492, 67379, 31864, 14226, 16803, 87773, 85980>>]],
      [key |-> <<9, 3, 0, 0, 0, 0, 3>>, train |-> {1, 2, 3, 5, 6, 8, 9},
       summed   |-> [n_iter |-> 9, p |-> <<5899, 9145, 20001, 28656, 27066, 18942, 77512, 84827, 82752>>],
       averaged |-> [n_iter |-> 9, p |-> <<5899, 9145, 20001, 28656, 27066, 18942, 77512, 84827, 82752>>]],
      [key |-> <<9, 3, 0, 0, 0, 0, 4>>, train |-> {1, 2, 3, 5, 6, 8, 9},
       summed   |-> [n_iter |-> 9, p |-> <<10174, 5980, 7176, 55778, 32270, 11953, 41014, 91899, 81080>>],
       averaged |-> [n_iter |-> 8, p |-> <<10170, 5978, 7177, 55788, 32274, 11955, 41009, 91900, 81078>>]],
      [key |-> <<9, 3, 1, 0, 0, 0, 3>>, train |-> {1, 2, 3, 5, 6, 8, 9},
       summed   |-> [n_iter |-> 9, p |-> <<4853, 9574, 20234, 28547, 27169, 19114, 77838, 84804, 82818>>],
       averaged |-> [n_iter |-> 9, p |-> <<4853, 9574, 20234, 28547, 27169, 19114, 77838, 84804, 82818>>]],
      [key |-> <<9, 3, 1, 0, 0, 0, 4>>, train |-> {1, 2, 3, 5, 6, 8, 9},
       summed   |-> [n_iter |-> 9, p |-> <<7977, 6695, 7274, 56276, 32681, 12249, 41192, 91995, 81255>>],
       averaged |-> [n_iter |-> 8, p |-> <<7978, 6694, 7274, 56277, 32684, 12248, 41192, 91995, 81256>>]],
      [key |-> <<9, 3, 2, 0, 0, 0, 3>>, train |-> {1, 2, 3, 5, 6, 8, 9},
       summed   |-> [n_iter |-> 10, p |-> <<4911, 7627, 20481, 29258, 27644, 19711, 78032, 85155, 82694>>],
       averaged |-> [n_iter |-> 8, p |-> <<4912, 7626, 20488, 29257, 27648, 19719, 78039, 85155, 82694>>]],
      [key |-> <<9, 3, 2, 0, 0, 0, 4>>, train |-> {1, 2, 3, 5, 6, 8, 9},
       summed   |-> [n_iter |-> 9, p |-> <<8596, 4891, 7479, 56820, 32879, 12783, 41704, 92092, 81257>>],
       averaged |-> [n_iter |-> 8, p |-> <<8598, 4893, 7480, 56817, 32877, 12786, 41709, 92091, 81255>>]],
      [key |-> <<9, 4, 0, 0, 0, 0, 3>>, train |-> {1, 2, 3, 5, 6, 7, 8},
       summed   |-> [n_iter |-> 8, p |-> <<8746, 12605, 22769, 29769, 22800, 85203, 79383, 85225, 65706>>],
       averaged |-> [n_iter |-> 7, p |-> <<8752, 12611, 22772, 29767, 22802, 85199, 79382, 85221, 65703>>]],
      [key |-> <<9, 4, 0, 0, 0, 0, 4>>, train |-> {1, 2, 3, 5, 6, 7, 8},
       summed   |-> [n_iter |-> 9, p |-> <<8501, 13409, 21322, 29561, 23746, 83757, 79949, 86062, 60001>>],
       averaged |-> [n_iter |-> 8, p |-> <<8505, 13410, 21326, 29564, 23750, 83757, 79951, 86062, 60005>>]],
      [key |-> <<9, 4, 1, 0, 0, 0, 3>>, train |-> {1, 2, 3, 5, 6, 7, 8},
       summed   |-> [n_iter |-> 9, p |-> <<6526, 13767, 23361, 29472, 22809, 85354, 79836, 84962, 65782>>],
       averaged |-> [n_iter |-> 8, p |-> <<6527, 13769, 23362, 29474, 22811, 85353, 79834, 84960, 65781>>]],
      [key |-> <<9, 4, 1, 0, 0, 0, 4>>, train |-> {1, 2, 3, 5, 6, 7, 8},
       summed   |-> [n_iter |-> 9, p |-> <<6512, 14478, 21550, 30044, 24013, 83836, 80021, 86230, 60441>>],
       averaged |-> [n_iter |-> 8, p |-> <<6514, 14480, 21553, 30050, 24017, 83835, 80019, 86229, 60442>>]],
      [key |-> <<9, 4, 2, 0, 0, 0, 3>>, train |-> {1, 2, 3, 5, 6, 7, 8},
       summed   |-> [n_iter |-> 9, p |-> <<6965, 10371, 23733, 31792, 23535, 85974, 79732, 85842, 63878>>],
       averaged |-> [n_iter |-> 8, p |-> <<6968, 10376, 23735, 31796, 23540, 85972, 79729, 85840, 63876>>]],
      [key |-> <<9, 4, 2, 0, 0, 0, 4>>, train |-> {1, 2, 3, 5, 6, 7, 8},
       summed   |-> [n_iter |-> 10, p |-> <<6911, 10724, 22589, 32288, 24316, 85003, 79919, 86673, 60074>>],
       averaged |-> [n_iter |-> 9, p |-> <<6913, 10724, 22592, 32289, 24319, 85003, 79921, 86673, 60077>>]] }

\* one entry of the table at the model's resolution
FitOnGrid(e) ==
    [key |-> e.key, train |-> e.train,
     summed   |-> [n_iter |-> e.summed.n_iter,
                   proba  |-> SeqOf(LAMBDA i : FloatOnGrid(e.summed.p[i]),
                                    Len(e.summed.p))],
     averaged |-> [n_iter |-> e.averaged.n_iter,
                   proba  |-> SeqOf(LAMBDA i : FloatOnGrid(e.averaged.p[i]),
                                    Len(e.averaged.p))]]

\* the table at the model's resolution
FitTableOnGrid == {FitOnGrid(e) : e \in FitTable}

\* the iterations lbfgs takes and the fitted probabilities of the deals of
\* `file`, at the model's resolution, when the classifier is fitted on the
\* rows `train` under each objective; no probabilities when the training
\* problem is not one of the table
LogisticRegressionFit(file, train) ==
    LET found == UNION {{e \in FitTableOnGrid : e.key = key /\ e.train = train} :
                          key \in {FileKey(file)}}
    IN IF found = {}
       THEN [summed |-> [n_iter |-> 0, proba |-> <<>>],
             averaged |-> [n_iter |-> 0, proba |-> <<>>]]
       ELSE LET e == CHOOSE f \in found : TRUE
            IN [summed |-> e.summed, averaged |-> e.averaged]

\* the fitted classifier, tabulated: the scaled rows Z of the deals and, row
\* by row, their fitted probabilities P
Response(Z, P) == [rows |-> Z, proba |-> P]

NoResponse == Response(<<>>, <<>>)

NoModel == [state |-> "None", response |-> NoResponse, converged |-> FALSE]

UnfittedModel == [state |-> "unfitted", response |-> NoResponse, converged |-> FALSE]

\* n_iter_ of a fit that takes fit.n_iter iterations on the file as it is and
\* would need at least `need` to meet the tolerance: lbfgs counts an iteration
\* and stops when the count has reached max_iter, before it tests the gradient
NIter(fit, need) ==
    LET n == IF need > fit.n_iter THEN need ELSE fit.n_iter
    IN IF n > MaxIter THEN MaxIter ELSE n

\* lbfgs leaves its last iterate in coef_ whether it stopped at the tolerance
\* or at max_iter; it reports convergence (no ConvergenceWarning) only when
\* the tolerance is met in fewer than max_iter iterations
FittedModel(c, n_iter) ==
    [state |-> "fitted", response |-> c, converged |-> n_iter < MaxIter]

\* model.predict_proba(X)[:, 1] for one scaled row; a row the classifier is
\* not tabulated on gets the probability of a zero decision function
PredictProba(m, z) ==
    LET at == {i \in DOMAIN m.response.rows : m.response.rows[i] = z}
    IN IF at = {} THEN ProbDen \div 2
       ELSE m.response.proba[CHOOSE i \in at : TRUE]

\* model.predict: class 1 (Lost) when the decision function is positive
Predict(m, z) == IF 2 * PredictProba(m, z) > ProbDen THEN 1 ELSE 0

\* ------------------------------------------------------- train_test_split
\* numpy RandomState(42): the low eight bits of the first outputs of the
\* Mersenne Twister seeded with 42 (init_genrand(42); the first output is
\* 1608637542, whose low eight bits are 102).  A split draws numbers below
\* the largest class count; one of at most nine deals consumes fewer than 32
\* outputs.
MtLowBits ==
    <<102, 179, 92, 14, 106, 71, 188, 20, 102, 121, 210, 214, 74, 202, 87, 116,
      99, 103, 151, 130, 149, 52, 1, 87, 235, 157, 37, 129, 191, 187, 20, 160,
      203, 57, 21, 252, 235, 88, 48, 218, 58, 254, 169, 255, 219, 187, 207, 14,
      189, 189, 174, 189, 50, 107, 54, 243, 63, 248, 130, 228, 50, 134, 20, 72,
      166, 17, 131, 88, 59, 13, 241, 249, 8, 89, 52, 129, 83, 91, 110, 187,
      198, 171, 252, 7, 174, 34, 205, 80, 163, 49, 103, 131, 1, 253, 133, 53,
      105, 3, 53, 220, 190, 145, 217, 43, 161, 201, 189, 227, 13, 94, 47, 14,
      199, 205, 214, 251, 248, 189, 39, 212, 207, 236, 81, 110, 52, 23, 153, 216,
      251, 187, 123, 236, 40, 156, 14, 44, 64, 88, 70, 8, 87, 128, 235, 135,
      215, 62, 138, 242, 80, 135, 162, 162, 32, 122, 4, 233, 230, 249, 40, 27,
      134, 200, 71, 11, 161, 32, 47, 246, 150, 61, 215, 36, 98, 171, 103, 213,
      218, 34, 192, 226, 100, 174, 205, 130, 0, 4, 217, 246, 254, 141, 102, 26,
      136, 206, 14, 89, 41, 123, 204, 178, 62, 95, 230, 240, 51, 252, 95, 131,
      221, 228, 150, 230, 236, 142, 170, 28, 35, 12, 159, 70, 186, 242, 85, 27,
      65, 169, 44, 61, 184, 244, 133, 27, 27, 107, 43, 83, 29, 189, 74, 127,
      249, 246, 91, 216, 230, 189, 224, 128, 120, 26, 189, 120, 115, 204, 232, 2>>

\* the smallest 2^b - 1 that is at least max
Mask(max) ==
    LET masks == {2 ^ b - 1 : b \in 1..8}
    IN CHOOSE m \in masks : m >= max /\ \A w \in masks : w >= max => m <= w

\* numpy rk_interval(max): outputs are masked to the bits of max and drawn
\* again until one is at most max.  pos counts the outputs consumed so far.
RECURSIVE RandomInterval(_, _)
RandomInterval(max, pos) ==
    LET value == MtLowBits[pos + 1] % (Mask(max) + 1)
    IN IF value <= max THEN [value |-> value, pos |-> pos + 1]
       ELSE RandomInterval(max, pos + 1)

\* the shuffle of RandomState.permutation: for i = n-1 down to 1, swap
\* a[i] with a[j], j = rk_interval(i) (a is 0-based in the code)
RECURSIVE Shuffle(_, _, _)
Shuffle(a, i, pos) ==
    IF i < 1 THEN [perm |-> a, pos |-> pos]
    ELSE LET r == RandomInterval(i, pos)
         IN Shuffle([a EXCEPT ![i + 1] = a[r.value + 1], ![r.value + 1] = a[i + 1]],
                    i - 1, r.pos)

\* rng.permutation(n), as positions 1..n
Permutation(n, pos) == Shuffle(SeqOf(LAMBDA k : k, n), n - 1, pos)

\* sklearn _validate_shuffle_split with test_size=0.2 and train_size=None:
\* n_test = ceil(0.2 * n_samples), n_train = n_samples - n_test
\* a variant that rounds the evaluation share down: floor(0.2 * n_samples)
NTestFloor(n_samples) == (TestPct * n_samples) \div 100

NTest(n_samples) == CeilDiv(TestPct * n_samples, 100)

NTrain(n_samples) == n_samples - NTest(n_samples)

\* a variant that ignores the class shares: the draws are taken from the
\* first class as far as it goes, the rest from the second
ApproximateModeFirstClass(class_counts, n_draws, pos) ==
    [counts |-> IF Len(class_counts) = 1 THEN <<n_draws>>
                ELSE <<Min(class_counts[1], n_draws),
                       n_draws - Min(class_counts[1], n_draws)>>,
     pos |-> pos]

\* the loop of _approximate_mode over the remainder values, largest first:
\* rng.choice(inds, size=add_now, replace=False) is the first add_now entries
\* of rng.permutation(len(inds)) applied to inds
RECURSIVE AddByRemainder(_, _, _, _, _)
AddByRemainder(floored, remainder, values, need_to_add, pos) ==
    IF need_to_add = 0 \/ values = {} THEN [counts |-> floored, pos |-> pos]
    ELSE LET value == CHOOSE v \in values : \A w \in values : w <= v
             inds == SortedSeq({k \in DOMAIN remainder : remainder[k] = value})
             add_now == Min(Len(inds), need_to_add)
             c == Permutation(Len(inds), pos)
             chosen == {inds[c.perm[q]] : q \in 1..add_now}
         IN AddByRemainder([k \in DOMAIN floored |->
                               IF k \in chosen THEN floored[k] + 1 ELSE floored[k]],
                           remainder, values \ {value}, need_to_add - add_now, c.pos)

\* sklearn _approximate_mode(class_counts, n_draws, rng): each class gets the
\* floor of its share class_counts/sum * n_draws, and what is left to add
\* goes to the classes with the largest remainders, rng.choice picking among
\* equal ones.  Shares are kept exact: remainder k is (c_k * n_draws) mod sum,
\* in units of 1/sum.
ApproximateMode(class_counts, n_draws, pos) ==
    LET K == Len(class_counts)
        total == SumSeq(class_counts)
        floored == SeqOf(LAMBDA k : (class_counts[k] * n_draws) \div total, K)
        remainder == SeqOf(LAMBDA k : (class_counts[k] * n_draws) % total, K)
        need_to_add == n_draws - SumSeq(floored)
    IN AddByRemainder(floored, remainder, Range(remainder), need_to_add, pos)

NoSplit == [ok |-> FALSE, train |-> {}, test |-> {}]

\* StratifiedShuffleSplit._iter_indices on the label vector y, the generator
\* at position pos: the allocations n_i and t_i, then per class
\* rng.permutation(class_counts[i]), whose first n_i entries go to train and
\* next t_i to test, then rng.permutation of train and of test (their order
\* only).  ok = FALSE stands for the ValueError of an impossible split.
IterIndices(y, pos) ==
    LET n_samples == Len(y)
        n_test == NTest(n_samples)
        n_train == NTrain(n_samples)
        classes == SortedSeq(Range(y))
        n_classes == Len(classes)
        class_indices == SeqOf(LAMBDA k :
                                 SortedSeq({i \in 1..n_samples : y[i] = classes[k]}),
                               n_classes)
        class_counts == SeqOf(LAMBDA k : Len(class_indices[k]), n_classes)
        n == ApproximateMode(class_counts, n_train, pos)
        n_i == n.counts
        class_counts_remaining == SeqOf(LAMBDA k : class_counts[k] - n_i[k], n_classes)
        t == ApproximateMode(class_counts_remaining, n_test, n.pos)
        t_i == t.counts
        p1 == Permutation(class_counts[1], t.pos)
        p2 == IF n_classes = 1 THEN p1 ELSE Permutation(class_counts[2], p1.pos)
        perm == IF n_classes = 1 THEN <<p1.perm>> ELSE <<p1.perm, p2.perm>>
        taken == SeqOf(LAMBDA k : SeqOf(LAMBDA q : class_indices[k][perm[k][q]],
                                        class_counts[k]),
                       n_classes)
        shuffled_train == Permutation(n_train, p2.pos)
        shuffled_test == Permutation(n_test, shuffled_train.pos)
    IN IF \/ n_train = 0
          \/ \E k \in 1..n_classes : class_counts[k] < 2
          \/ n_train < n_classes
          \/ n_test < n_classes
       THEN [ok |-> FALSE, train |-> {}, test |-> {}, pos |-> pos]
       ELSE [ok    |-> TRUE,
             train |-> UNION {Range(SubSeq(taken[k], 1, n_i[k])) : k \in 1..n_classes},
             test  |-> UNION {Range(SubSeq(taken[k], n_i[k] + 1, n_i[k] + t_i[k])) :
                                 k \in 1..n_classes},
             pos   |-> shuffled_test.pos]

\* the train and test rows of a split StratifiedShuffleSplit yields
SplitRows(it) == [ok |-> it.ok, train |-> it.train, test |-> it.test]

\* train_test_split(X, y, test_size=0.2, random_state=42, stratify=y): the
\* train and test rows of the one split StratifiedShuffleSplit yields
StratifiedSplit(y, pos) == SplitRows(IterIndices(y, pos))

\* ------------------------------------------------------------- data frame
RawColumns == {"deal_id", "created_date", "closed_date", "sales_rep_id", "industry",
               "region", "product_type", "lead_source", "deal_stage", "deal_amount",
               "sales_cycle_days", "outcome"}

\* the columns of the deals that the model carries cell by cell
DealColumns == {"outcome", "sales_cycle_days", "industry", "region", "product_type",
                "lead_source", "sales_rep_id", "deal_stage", "deal_amount"}

\* a file with every required column and parsable dates
FullSchema == [columns |-> RawColumns, dates_parse |-> TRUE]

\* the files with a schema error: one required column is not there, or a
\* date cell does not parse
BrokenSchemas ==
    {[columns |-> RawColumns \ {c}, dates_parse |-> TRUE] : c \in RawColumns}
        \cup {[columns |-> RawColumns, dates_parse |-> FALSE]}

NoDf == [exists |-> FALSE, columns |-> {}, index |-> {}] @@
        [c \in DealColumns \cup Range(FeatureNames)
               \cup {"risk_outcome", "risk_score", "risk_category"} |-> <<>>]

\* one column of the file, empty when the file does not have it
ColumnOf(file, c, columns) ==
    IF c \in columns THEN [i \in DOMAIN file |-> file[i][c]] ELSE <<>>

\* pd.read_csv(self.data_path): the frame of the file's columns
ReadCsv(file, columns) ==
    [NoDf EXCEPT !.exists = TRUE, !.columns = columns, !.index = DOMAIN file,
                 !.outcome = ColumnOf(file, "outcome", columns),
                 !.sales_cycle_days = ColumnOf(file, "sales_cycle_days", columns),
                 !.industry = ColumnOf(file, "industry", columns),
                 !.region = ColumnOf(file, "region", columns),
                 !.product_type = ColumnOf(file, "product_type", columns),
                 !.lead_source = ColumnOf(file, "lead_source", columns),
                 !.sales_rep_id = ColumnOf(file, "sales_rep_id", columns),
                 !.deal_stage = ColumnOf(file, "deal_stage", columns),
                 !.deal_amount = ColumnOf(file, "deal_amount", columns)]

\* load_and_prepare_data raises after read_csv: KeyError on a date column or
\* the outcome column that is not there, a parser error on a date that does
\* not parse
LoadRaises(sch) ==
    \/ ~({"created_date", "closed_date", "outcome"} \subseteq sch.columns)
    \/ ~sch.dates_parse

\* the risk_outcome column: 1 for Lost, 0 for Won
RiskOutcome(outcome) == [i \in DOMAIN outcome |-> IF outcome[i] = "Lost" THEN 1 ELSE 0]

\* ----------------------------------------------------- feature engineering
\* np.log1p(deal_amount), in thousandths
Log1p(amount) == LnMilli[amount + 1]

\* the rows of the group of row i: groupby(key) on one or two key columns
GroupOf(keys, i) == {j \in DOMAIN keys[1] : \A q \in DOMAIN keys : keys[q][j] = keys[q][i]}

\* a variant that smooths the group rate: (won + 1) / (size + 2)
WinRateSmoothed(key, risk_outcome) ==
    SeqOf(LAMBDA i :
            LET G == GroupOf(<<key>>, i)
            IN ((Cardinality(G) - SumOver(risk_outcome, G) + 1) * RateUnit)
                   \div (Cardinality(G) + 2),
          Cardinality(DOMAIN key))

\* groupby(key)['risk_outcome'].transform(lambda x: 1 - x.mean())
WinRate(key, risk_outcome) ==
    SeqOf(LAMBDA i :
            LET G == GroupOf(<<key>>, i)
            IN ((Cardinality(G) - SumOver(risk_outcome, G)) * RateUnit) \div Cardinality(G),
          Cardinality(DOMAIN key))

\* the values of a column on the rows S, in increasing order
RECURSIVE SortedValues(_, _)
SortedValues(col, S) ==
    IF S = {} THEN <<>>
    ELSE LET m == CHOOSE j \in S : \A q \in S : col[j] <= col[q]
         IN <<col[m]>> \o SortedValues(col, S \ {m})

\* twice the median of a column on the rows S: the middle value counted
\* twice, or the sum of the two middle values
TwiceMedian(col, S) ==
    LET v == SortedValues(col, S)
    IN v[(Len(v) + 1) \div 2] + v[(Len(v) + 2) \div 2]

\* a variant whose segment is the industry alone
DealSizeVsIndustry(industry, product_type, deal_amount) ==
    SeqOf(LAMBDA i :
            (2 * deal_amount[i] * RatioUnit)
                \div TwiceMedian(deal_amount, GroupOf(<<industry>>, i)),
          Cardinality(DOMAIN deal_amount))

\* deal_amount / groupby(['industry', 'product_type'])['deal_amount']
\* .transform('median')
DealSizeVsSegment(industry, product_type, deal_amount) ==
    SeqOf(LAMBDA i :
            (2 * deal_amount[i] * RatioUnit)
                \div TwiceMedian(deal_amount, GroupOf(<<industry, product_type>>, i)),
          Cardinality(DOMAIN deal_amount))

\* stage_order, and deal_stage.map(stage_order): NaN for a stage it lacks
StageOrder == [Demo |-> 1, Qualified |-> 2, Proposal |-> 3, Negotiation |-> 4, Closed |-> 5]

StageCode(stage) == IF stage \in DOMAIN StageOrder THEN StageOrder[stage] ELSE NaN

\* the assignments of engineer_features in source order: the column each
\* adds and the columns it reads
EngineerSteps ==
    <<[col |-> "sales_cycle_days_norm", reads |-> {"sales_cycle_days"}],
      [col |-> "deal_amount_log",       reads |-> {"deal_amount"}],
      [col |-> "industry_win_rate",     reads |-> {"industry", "risk_outcome"}],
      [col |-> "region_win_rate",       reads |-> {"region", "risk_outcome"}],
      [col |-> "product_win_rate",      reads |-> {"product_type", "risk_outcome"}],
      [col |-> "lead_source_win_rate",  reads |-> {"lead_source", "risk_outcome"}],
      [col |-> "rep_win_rate",          reads |-> {"sales_rep_id", "risk_outcome"}],
      [col |-> "deal_size_vs_segment",  reads |-> {"industry", "product_type", "deal_amount"}],
      [col |-> "deal_stage_encoded",    reads |-> {"deal_stage"}],
      [col |-> "is_enterprise",         reads |-> {"product_type"}]>>

\* how many of the assignments run before the first KeyError
StepsDone(d) ==
    Cardinality({k \in DOMAIN EngineerSteps :
                    \A q \in 1..k : EngineerSteps[q].reads \subseteq d.columns})

\* the value a feature column gets from the frame d
FeatureColumn(d, c) ==
    CASE c = "sales_cycle_days_norm" -> d.sales_cycle_days
      [] c = "deal_amount_log" -> [i \in d.index |-> Log1p(d.deal_amount[i])]
      [] c = "industry_win_rate" -> WinRate(d.industry, d.risk_outcome)
      [] c = "region_win_rate" -> WinRate(d.region, d.risk_outcome)
      [] c = "product_win_rate" -> WinRate(d.product_type, d.risk_outcome)
      [] c = "lead_source_win_rate" -> WinRate(d.lead_source, d.risk_outcome)
      [] c = "rep_win_rate" -> WinRate(d.sales_rep_id, d.risk_outcome)
      [] c = "deal_size_vs_segment" ->
             DealSizeVsSegment(d.industry, d.product_type, d.deal_amount)
      [] c = "deal_stage_encoded" -> [i \in d.index |-> StageCode(d.deal_stage[i])]
      [] c = "is_enterprise" ->
             [i \in d.index |-> IF d.product_type[i] = "Enterprise" THEN 1 ELSE 0]

\* self.df after engineer_features has run as far as it gets: the columns
\* of the assignments that ran are added (or overwritten), the others stay
EngineeredFrame(d) ==
    LET done == {EngineerSteps[k].col : k \in 1..StepsDone(d)}
    IN [c \in done |-> FeatureColumn(d, c)] @@
       [columns |-> d.columns \cup done] @@
       d

\* a variant in which fillna leaves the missing cells as they are
FillNaKept(col) == col

\* DataFrame.fillna(0) on a numeric column
FillNa(col) == [i \in DOMAIN col |-> IF col[i] = NaN THEN 0 ELSE col[i]]

\* self.df[self.feature_names].fillna(0): the feature matrix, column by
\* column in the order of the names
FeatureMatrix(d, names) == SeqOf(LAMBDA k : FillNa(d[names[k]]), Len(names))

\* row i of a feature matrix
RowOf(X, i) == [k \in DOMAIN X |-> X[k][i]]

\* ------------------------------------------------------------------ engine
Methods == <<"load_and_prepare_data", "engineer_features", "train_model",
             "score_deals", "generate_actionable_insights", "export_results">>

MethodIndex(m) == CHOOSE k \in DOMAIN Methods : Methods[k] = m

\* main(): the method chained after m, or "done" after the last
NextInChain(m) ==
    IF MethodIndex(m) = Len(Methods) THEN "done" ELSE Methods[MethodIndex(m) + 1]

\* a client script that scores the corpus twice before it exports
RescoreScript == <<"load_and_prepare_data", "engineer_features", "train_model",
                   "score_deals", "score_deals", "generate_actionable_insights",
                   "export_results">>

\* the rescoring script: the method after the first `done` ones, or "done"
NextInScript(done) ==
    IF done = Len(RescoreScript) THEN "done" ELSE RescoreScript[done + 1]

\* a caller may invoke m now: the free caller always, a script at m's turn
Call(m) == caller = "free" \/ pc = m

\* what a call's end leaves behind: a normal return (ok) or an exception,
\* which ends main() and the script
Return(m, ok) ==
    /\ raised' = ~ok
    /\ completed' = IF ok THEN completed \cup {m} ELSE completed
    /\ pc' = IF caller = "free" THEN pc
             ELSE IF ~ok THEN "failed"
             ELSE IF caller = "main" THEN NextInChain(m)
             ELSE NextInScript(Len(calls) + 1)
    /\ calls' = IF caller # "free" /\ ok THEN Append(calls, m) ELSE calls
    /\ UNCHANGED <<caller, csv, schema, lbfgs_need, probe, board>>

\* alert_category is "" until utils.categorize_risk has been applied
NoProbe == [p |-> 0, scored |-> FALSE, risk_score |-> 0, risk_category |-> "NaN",
            alert_category |-> ""]

\* no table, nothing listed
NoBoard == [index |-> {}, deal_stage |-> <<>>, risk_score |-> <<>>, risk_category |-> <<>>,
            printed |-> FALSE, top_risk |-> <<>>, reported |-> FALSE, report_rows |-> <<>>]

\* __init__: the engine as constructed, before any method is called
EngineInit ==
    /\ df = NoDf
    /\ feature_names = <<>>
    /\ scaler = UnfittedScaler
    /\ model = NoModel
    /\ feature_importance = FALSE
    /\ csv_file = <<>>
    /\ report_file = FALSE
    /\ mt_stream = -1
    /\ lbfgs_result = <<>>
    /\ raised = FALSE
    /\ completed = {}
    /\ calls = <<>>
    /\ split = NoSplit
    /\ prev_split = NoSplit

\* who drives the engine, and where a script starts
Callers == {"main", "rescore", "free"}

StartOf(c) == IF c = "free" THEN "free" ELSE Methods[1]

Init ==
    /\ caller \in Callers
    /\ pc = StartOf(caller)
    /\ csv \in CsvFamily
    /\ schema = FullSchema
    /\ lbfgs_need = 0
    /\ EngineInit
    /\ board = NoBoard
    /\ probe = NoProbe

\* load_and_prepare_data: self.df is replaced by the freshly read file, the
\* dates are parsed and risk_outcome is added; an exception leaves self.df
\* as read
load_and_prepare_data ==
    /\ Call("load_and_prepare_data")
    /\ \E raw \in {ReadCsv(csv, schema.columns)} :
          IF LoadRaises(schema)
          THEN /\ df' = raw
               /\ Return("load_and_prepare_data", FALSE)
          ELSE /\ df' = [raw EXCEPT !.columns = @ \cup {"risk_outcome"},
                                    !.risk_outcome = RiskOutcome(raw.outcome)]
               /\ Return("load_and_prepare_data", TRUE)
    /\ UNCHANGED <<feature_names, scaler, model, feature_importance, csv_file,
                   report_file, mt_stream, lbfgs_result, split, prev_split>>

\* engineer_features: self.df None raises TypeError; else the feature columns
\* are assigned one after the other, the first column that is not there
\* raises KeyError, and feature_names is set after the last assignment
engineer_features ==
    /\ Call("engineer_features")
    /\ IF ~df.exists
       THEN /\ UNCHANGED <<df, feature_names>>
            /\ Return("engineer_features", FALSE)
       ELSE LET ok == StepsDone(df) = Len(EngineerSteps)
            IN /\ df' = EngineeredFrame(df)
               /\ feature_names' = IF ok THEN FeatureNames ELSE feature_names
               /\ Return("engineer_features", ok)
    /\ UNCHANGED <<scaler, model, feature_importance, csv_file, report_file, mt_stream,
                   lbfgs_result, split, prev_split>>

\* a variant in which the random state is shared between calls: a later
\* split goes on where the one before stopped (s outputs into the stream)
CheckRandomStateShared(s) == IF s < 0 THEN 0 ELSE s % (Len(MtLowBits) \div 2)

\* check_random_state(42): a fresh RandomState(42) for every call, at the
\* start of its stream wherever an earlier one stopped
CheckRandomState(s) == 0

\* the rows self.scaler.fit_transform(X_train) fits on
FitRows(sp) == sp.train

\* a variant in which transforming adds the rows to the running statistics:
\* partial_fit before transform
ScalerAfterPartialFit(sc, X, rows) ==
    LET f == ScalerFit(X, rows)
    IN [fitted |-> TRUE,
        n      |-> sc.n + f.n,
        sum    |-> SeqOf(LAMBDA k : sc.sum[k] + f.sum[k], Len(X)),
        sumsq  |-> SeqOf(LAMBDA k : sc.sumsq[k] + f.sumsq[k], Len(X))]

\* a variant in which transforming refits: fit_transform in place of transform
ScalerAfterFitTransform(sc, X, rows) == ScalerFit(X, rows)

\* self.scaler after self.scaler.transform(X): transform reads the fitted
\* statistics and leaves them as they are
ScalerAfterTransform(sc, X, rows) == sc

\* the labels classification_report and confusion_matrix see: those of
\* y_test and of y_pred = model.predict(X_test_scaled)
EvalLabels(y, X, sc, m, test) ==
    {y[i] : i \in test} \cup {Predict(m, ScalerTransform(sc, RowOf(X, i))) : i \in test}

\* self.scaler after the scaling step of train_model: fit_transform on the
\* training rows, transform on the evaluation rows
TrainScaler(X, sp) ==
    ScalerAfterTransform(ScalerFit(X, FitRows(sp)), X, sp.test)

\* train_model up to its first exception.  stage names the step that raised
\* ("ok": none did): "split" (train_test_split), "scale" (StandardScaler on
\* zero features), "fit" (LogisticRegression.fit on one class), "evaluate"
\* (classification_report on one label, roc_auc_score on one class in y_test).
\* X and y are the feature matrix and the labels, sp the partition, sc the
\* scaler after the scaling step, c the fit lbfgs returns, auc_raises whether
\* the installed roc_auc_score raises on a one-class y_test (older releases)
\* or returns nan (newer ones).
TrainOutcome(X, y, sp, sc, c, auc_raises) ==
    LET y_train == {y[i] : i \in sp.train}
        fitted_model == FittedModel(c.response, NIter(c, lbfgs_need))
        labels == EvalLabels(y, X, sc, fitted_model, sp.test)
        base == [stage |-> "ok", scaler |-> scaler, model |-> model,
                 importance |-> feature_importance]
    IN IF ~sp.ok THEN [base EXCEPT !.stage = "split"]
       ELSE IF feature_names = <<>>
       THEN [base EXCEPT !.stage = "scale", !.scaler = UnfittedScaler]
       ELSE IF Cardinality(y_train) < 2
       THEN [base EXCEPT !.stage = "fit", !.scaler = sc, !.model = UnfittedModel]
       ELSE IF \/ Cardinality(labels) # 2
               \/ Cardinality({y[i] : i \in sp.test}) < 2 /\ auc_raises
       THEN [base EXCEPT !.stage = "evaluate", !.scaler = sc, !.model = fitted_model]
       ELSE [base EXCEPT !.scaler = sc, !.model = fitted_model,
                         !.importance = TRUE]

\* the classifier train_model fits under each objective:
\* LogisticRegression.fit on the scaled training rows, as n_iter_ and the
\* table of the deals' scaled rows and probabilities
LbfgsResult(X, sp, sc) ==
    LET fit == LogisticRegressionFit(csv, sp.train)
        Z == SeqOf(LAMBDA i : ScalerTransform(sc, RowOf(X, i)), Len(fit.summed.proba))
        Of(o) == [n_iter |-> fit[o].n_iter, response |-> Response(Z, fit[o].proba)]
    IN [summed |-> Of("summed"), averaged |-> Of("averaged")]

\* the objectives the installed release can have, given the fits this process
\* has made: any before the first, then those that give what the fits gave
InstalledObjectives ==
    IF lbfgs_result = <<>> THEN Objectives ELSE lbfgs_result[1].objectives

\* train_model raises before partitioning when self.df is None (TypeError)
\* or a feature column or risk_outcome is not in self.df (KeyError)
TrainRaisesEarly ==
    \/ ~df.exists
    \/ ~(Range(feature_names) \subseteq df.columns)
    \/ "risk_outcome" \notin df.columns

\* train_model: partition, fit the scaler on the training rows, transform the
\* evaluation rows, fit the classifier, evaluate, record the coefficients
train_model ==
    /\ Call("train_model")
    /\ IF TrainRaisesEarly
       THEN /\ UNCHANGED <<mt_stream, lbfgs_result, scaler, model, feature_importance,
                           split, prev_split>>
            /\ Return("train_model", FALSE)
       ELSE \E X \in {FeatureMatrix(df, feature_names)} :
            \E pos \in {CheckRandomState(mt_stream)} :
            \E it \in {IterIndices(df.risk_outcome, pos)} :
            \E sp \in {SplitRows(it)} :
            \E sc \in {TrainScaler(X, sp)} :
            \E fits \in {LbfgsResult(X, sp, sc)}, auc_raises \in BOOLEAN :
            \E objective \in InstalledObjectives :
            \E c \in {fits[objective]} :
            \E o \in {TrainOutcome(X, df.risk_outcome, sp, sc, c, auc_raises)} :
                   LET fitted == o.stage \in {"evaluate", "ok"}
                       same == {r \in InstalledObjectives :
                                   fits[r].response = c.response}
                   IN /\ mt_stream' = IF sp.ok THEN it.pos ELSE mt_stream
                      /\ lbfgs_result' = IF fitted
                                         THEN <<[response |-> c.response,
                                                 objectives |-> same]>>
                                         ELSE lbfgs_result
                      /\ scaler' = o.scaler
                      /\ model' = o.model
                      /\ feature_importance' = o.importance
                      /\ split' = IF sp.ok THEN sp ELSE split
                      /\ prev_split' = IF sp.ok THEN split ELSE prev_split
                      /\ Return("train_model", o.stage = "ok")
    /\ UNCHANGED <<df, feature_names, csv_file, report_file>>

\* the risk_score column: (risk_probabilities * 100).round(1)
ScoreColumn(probabilities) ==
    [i \in DOMAIN probabilities |-> RiskScore(probabilities[i])]

\* the risk_category column: pd.cut of the risk_score column
CategoryColumn(scores) == [i \in DOMAIN scores |-> RiskCategory(scores[i])]

\* self.model.predict_proba(X_scaled)[:, 1] for the whole feature matrix
PredictProbaAll(m, sc, X) ==
    [i \in DOMAIN X[1] |-> PredictProba(m, ScalerTransform(sc, RowOf(X, i)))]

\* a variant that also writes the zero-filled features back into the frame:
\* fillna(0, inplace=True)
ScoredFrameFilled(d, scores) ==
    [c \in DOMAIN d |->
        IF c \in Range(FeatureNames) THEN FillNa(d[c])
        ELSE IF c = "columns" THEN d.columns \cup {"risk_score", "risk_category"}
        ELSE IF c = "risk_score" THEN scores
        ELSE IF c = "risk_category" THEN CategoryColumn(scores)
        ELSE d[c]]

\* self.df after score_deals has assigned its two columns
ScoredFrame(d, scores) ==
    [d EXCEPT !.columns = @ \cup {"risk_score", "risk_category"},
              !.risk_score = scores,
              !.risk_category = CategoryColumn(scores)]

\* score_deals raises when self.df is None, a feature column is missing, the
\* scaler is not fitted (or was fitted on another number of features), or
\* self.model is None or unfitted
ScoreRaises ==
    \/ ~df.exists
    \/ ~(Range(feature_names) \subseteq df.columns)
    \/ ~scaler.fitted
    \/ feature_names = <<>>
    \/ model.state # "fitted"

\* score_deals: transform the whole corpus with the fitted scaler, predict,
\* and write the risk_score and risk_category columns
score_deals ==
    /\ Call("score_deals")
    /\ IF ScoreRaises
       THEN /\ UNCHANGED <<df, scaler>>
            /\ Return("score_deals", FALSE)
       ELSE \E X \in {FeatureMatrix(df, feature_names)} :
            \E sc \in {ScalerAfterTransform(scaler, X, df.index)} :
            \E scores \in {ScoreColumn(PredictProbaAll(model, sc, X))} :
               /\ scaler' = sc
               /\ df' = ScoredFrame(df, scores)
               /\ Return("score_deals", TRUE)
    /\ UNCHANGED <<feature_names, model, feature_importance, csv_file, report_file,
                   mt_stream, lbfgs_result, split, prev_split>>

\* the columns generate_actionable_insights reads
InsightColumns == {"deal_stage", "risk_category", "risk_score", "deal_id", "deal_amount",
                   "industry", "sales_rep_id", "lead_source"}

\* generate_actionable_insights: prints only; raises when self.df is None or
\* lacks a column it reads
generate_actionable_insights ==
    /\ Call("generate_actionable_insights")
    /\ Return("generate_actionable_insights",
              df.exists /\ InsightColumns \subseteq df.columns)
    /\ UNCHANGED <<df, feature_names, scaler, model, feature_importance, csv_file,
                   report_file, mt_stream, lbfgs_result, split, prev_split>>

\* the columns export_results selects for outputs/risk_scores.csv
OutputCols == RawColumns \cup {"risk_score", "risk_category"}

\* self.df[output_cols] raises KeyError unless every output column is there
ExportColumnsPresent == df.exists /\ OutputCols \subseteq df.columns

\* the rows to_csv writes: one per row of self.df, in its order
CsvRows ==
    [i \in DOMAIN df.outcome |->
        [deal_id |-> i, outcome |-> df.outcome[i],
         sales_cycle_days |-> df.sales_cycle_days[i],
         risk_score |-> df.risk_score[i], risk_category |-> df.risk_category[i]]]

\* what the file system does to an export: nothing ("ok"), or to_csv cannot
\* open its file, or to_csv fails after it has opened (and so emptied) its
\* file, or the report file cannot be opened, or writing the report fails
\* after the file has been opened
ExportFaults == {"ok", "csv_open_fails", "csv_write_fails", "report_open_fails",
                 "report_write_fails"}

\* export_results: select the output columns, write the CSV, then build the
\* report and write it.  The report reads the scored table and
\* feature_importance, a dict from construction on, so building it does not
\* raise.  A write that fails part-way leaves its file with what was written
\* until then: for the CSV, the first m rows of the table (none when the
\* header was not finished), for the report a file that exists.
export_results ==
    /\ Call("export_results")
    /\ IF ~ExportColumnsPresent
       THEN /\ UNCHANGED <<csv_file, report_file>>
            /\ Return("export_results", FALSE)
       ELSE \E io \in ExportFaults :
          IF io = "csv_open_fails"
          THEN /\ UNCHANGED <<csv_file, report_file>>
               /\ Return("export_results", FALSE)
          ELSE IF io = "csv_write_fails"
          THEN /\ \E m \in 0..(Len(df.outcome) - 1) :
                     csv_file' = <<[i \in 1..m |-> CsvRows[i]]>>
               /\ UNCHANGED report_file
               /\ Return("export_results", FALSE)
          ELSE /\ csv_file' = <<CsvRows>>
               /\ report_file' = (report_file \/ io # "report_open_fails")
               /\ Return("export_results", io = "ok")
    /\ UNCHANGED <<df, feature_names, scaler, model, feature_importance, mt_stream,
                   lbfgs_result, split, prev_split>>

Next ==
    \/ load_and_prepare_data
    \/ engineer_features
    \/ train_model
    \/ score_deals
    \/ generate_actionable_insights
    \/ export_results

Spec == Init /\ [][Next]_vars

\* --------------------------------------------- the engine on other inputs
\* The engine driven as in Spec, started on files that vary the descriptive
\* columns and may hold a stage the mapping lacks and an empty cell.
FeatureInit ==
    /\ caller \in Callers
    /\ pc = StartOf(caller)
    /\ csv \in FeatureFamily
    /\ schema = FullSchema
    /\ lbfgs_need = 0
    /\ EngineInit
    /\ board = NoBoard
    /\ probe = NoProbe

SpecFeatures == FeatureInit /\ [][Next]_vars

\* clean files of FeatN deals on which training succeeds
CleanFamily == {CsvWith(FeatN, k, MaxLong, 0, FALSE) : k \in 2..MaxLost}

\* The engine started on files with and without a schema error.
SchemaInit ==
    /\ caller \in Callers
    /\ pc = StartOf(caller)
    /\ csv \in CleanFamily
    /\ schema \in BrokenSchemas \cup {FullSchema}
    /\ lbfgs_need = 0
    /\ EngineInit
    /\ board = NoBoard
    /\ probe = NoProbe

SpecSchema == SchemaInit /\ [][Next]_vars

\* The engine started on training problems on which lbfgs meets its tolerance
\* in the last iteration before the cap, and on problems on which it reaches
\* max_iter iterations first.
OptimizerInit ==
    /\ caller \in Callers
    /\ pc = StartOf(caller)
    /\ csv \in CleanFamily
    /\ schema = FullSchema
    /\ lbfgs_need \in {MaxIter - 1, MaxIter}
    /\ EngineInit
    /\ board = NoBoard
    /\ probe = NoProbe

SpecOptimizer == OptimizerInit /\ [][Next]_vars

\* clean files of FeatN deals, and the same files with a negative
\* sales_cycle_days cell in the first or the second deal
NegativeCycleFamily ==
    {[i \in 1..FeatN |->
         IF i = neg
         THEN [CsvWith(FeatN, k, MaxLong, 0, FALSE)[i] EXCEPT
                   !.sales_cycle_days = -ShortCycle]
         ELSE CsvWith(FeatN, k, MaxLong, 0, FALSE)[i]] :
        k \in 2..MaxLost, neg \in 0..2}

\* The engine started on files with and without a negative sales cycle.
CycleInit ==
    /\ caller \in Callers
    /\ pc = StartOf(caller)
    /\ csv \in NegativeCycleFamily
    /\ schema = FullSchema
    /\ lbfgs_need = 0
    /\ EngineInit
    /\ board = NoBoard
    /\ probe = NoProbe

SpecCycles == CycleInit /\ [][Next]_vars

\* ------------------------------------------------- the scorer on its own
\* Lines 193-201 of score_deals applied to one predicted probability: the
\* probability is drawn from the whole range 0..1 at the model's resolution.
ScorerInit ==
    /\ caller = "free"
    /\ pc = "free"
    /\ csv = CsvOf(1, 0, 0)
    /\ schema = FullSchema
    /\ lbfgs_need = 0
    /\ EngineInit
    /\ board = NoBoard
    /\ probe \in {[NoProbe EXCEPT !.p = P] : P \in 0..ProbDen}

score_one ==
    /\ ~probe.scored
    /\ LET scores == ScoreColumn(<<probe.p>>)
       IN probe' = [probe EXCEPT !.scored = TRUE,
                                 !.risk_score = scores[1],
                                 !.risk_category = CategoryColumn(scores)[1]]
    /\ UNCHANGED <<caller, pc, csv, schema, lbfgs_need, df, feature_names, scaler,
                   model, feature_importance, csv_file, report_file, mt_stream, lbfgs_result,
                   raised, completed, calls, split, prev_split, board>>

SpecScorer == ScorerInit /\ [][score_one]_vars

\* ------------------------------------------- the alerting category (utils)
\* utils.categorize_risk(risk_score), the score in tenths
categorize_risk(risk_score) ==
    IF risk_score < 33 * 10 THEN "Low"
    ELSE IF risk_score < 66 * 10 THEN "Medium"
    ELSE "High"

\* categorize_risk applied to the score score_deals gave the probability
categorize_one ==
    /\ probe.scored
    /\ probe.alert_category = ""
    /\ probe' = [probe EXCEPT !.alert_category = categorize_risk(probe.risk_score)]
    /\ UNCHANGED <<caller, pc, csv, schema, lbfgs_need, df, feature_names, scaler,
                   model, feature_importance, csv_file, report_file, mt_stream, lbfgs_result,
                   raised, completed, calls, split, prev_split, board>>

\* The scorer and the alerting category on every probability.
SpecAlert == ScorerInit /\ [][score_one \/ categorize_one]_vars

\* ------------------------------------------------- the high-risk listings
\* the stages of a deal still in the pipeline
PipelineStages == {"Demo", "Qualified", "Proposal", "Negotiation"}

ConsoleTop == 10   \* high_risk_deals.head(10)
ReportTop == 15    \* high_risk_pipeline.head(15)

\* pipeline_deals[pipeline_deals['risk_category'] == 'High']: the rows of d
\* in a pipeline stage whose category is High
HighRiskPipeline(d) ==
    {i \in d.index : d.deal_stage[i] \in PipelineStages /\ d.risk_category[i] = "High"}

\* a variant that sorts ascending: sort_values('risk_score')
RECURSIVE SortValuesAscending(_, _)
SortValuesAscending(risk_score, S) ==
    IF S = {} THEN {<<>>}
    ELSE LET low == {i \in S : \A j \in S : risk_score[i] <= risk_score[j]}
         IN UNION {{<<i>> \o rest : rest \in SortValuesAscending(risk_score, S \ {i})} :
                      i \in low}

\* sort_values('risk_score', ascending=False) on the rows S: the default
\* sort is numpy's quicksort, which leaves the order of rows with equal
\* scores to the build, so every non-increasing order of S is an outcome
RECURSIVE SortValuesDescending(_, _)
SortValuesDescending(risk_score, S) ==
    IF S = {} THEN {<<>>}
    ELSE LET top == {i \in S : \A j \in S : risk_score[j] <= risk_score[i]}
         IN UNION {{<<i>> \o rest : rest \in SortValuesDescending(risk_score, S \ {i})} :
                      i \in top}

\* rows.head(n)
head(rows, n) == SubSeq(rows, 1, Min(n, Len(rows)))

\* the table of n scored deals: the stages cycle through Stages as in the
\* input files; the scores are 13 tenths apart, from 100.0 down, in an order
\* that a and b shuffle; 2 * tied pairs of neighbouring scores, near the
\* places where the lists are cut, are made equal.  Scores above 66.0 are
\* High, the lowest ones Medium.
ScoredTable(n, a, b, tied) ==
    LET r(i) == (a * i + b) % 29
        q(i) == r(i) \div 2
        step(i) == IF 6 <= q(i) /\ q(i) < 6 + 2 * tied THEN 2 * q(i) ELSE r(i)
        scores == SeqOf(LAMBDA i : Bin3 - 13 * step(i), n)
    IN [NoBoard EXCEPT !.index = 1..n,
                       !.deal_stage = SeqOf(LAMBDA i : Stages[((i - 1) % Len(Stages)) + 1], n),
                       !.risk_score = scores,
                       !.risk_category = CategoryColumn(scores)]

\* the tables considered: few deals, more than the console shows, more than
\* the report shows
ScoredTables ==
    {ScoredTable(n, a, b, tied) :
        n \in {MaxListed \div 6, MaxListed \div 2, MaxListed},
        a \in {1, 7}, b \in 0..3, tied \in 0..2}

\* Lines 221-232 and 339-350 applied to one scored table.
ListingInit ==
    /\ caller = "free"
    /\ pc = "free"
    /\ csv = CsvOf(1, 0, 0)
    /\ schema = FullSchema
    /\ lbfgs_need = 0
    /\ EngineInit
    /\ probe = NoProbe
    /\ board \in ScoredTables

\* generate_actionable_insights, lines 221-229: the console list
list_top_risk ==
    /\ board.index # {}
    /\ ~board.printed
    /\ \E high_risk_deals \in
             SortValuesDescending(board.risk_score, HighRiskPipeline(board)) :
          board' = [board EXCEPT !.printed = TRUE,
                                 !.top_risk = head(high_risk_deals, ConsoleTop)]
    /\ UNCHANGED <<caller, pc, csv, schema, lbfgs_need, df, feature_names, scaler,
                   model, feature_importance, csv_file, report_file, mt_stream, lbfgs_result,
                   raised, completed, calls, split, prev_split, probe>>

\* _generate_risk_report, lines 339-348: the rows of the report table
list_report_rows ==
    /\ board.index # {}
    /\ ~board.reported
    /\ \E high_risk_pipeline \in
             SortValuesDescending(board.risk_score, HighRiskPipeline(board)) :
          board' = [board EXCEPT !.reported = TRUE,
                                 !.report_rows = head(high_risk_pipeline, ReportTop)]
    /\ UNCHANGED <<caller, pc, csv, schema, lbfgs_need, df, feature_names, scaler,
                   model, feature_importance, csv_file, report_file, mt_stream, lbfgs_result,
                   raised, completed, calls, split, prev_split, probe>>

SpecListing == ListingInit /\ [][list_top_risk \/ list_report_rows]_vars

\* ================================================================== claims
\* the frame load_and_prepare_data makes of the input file when it has every
\* column
InputFrame ==
    [ReadCsv(csv, RawColumns) EXCEPT
        !.columns = @ \cup {"risk_outcome"},
        !.risk_outcome = RiskOutcome(ColumnOf(csv, "outcome", RawColumns))]

\* the feature matrix of the input file: the one the data holds when the
\* data has the feature columns (C15 and C16 relate those to the file), and
\* else the one engineer_features makes of the file
InputFeature ==
    IF Range(FeatureNames) \subseteq df.columns
    THEN FeatureMatrix(df, FeatureNames)
    ELSE LET d == InputFrame
         IN SeqOf(LAMBDA k : FillNa(FeatureColumn(d, FeatureNames[k])), Len(FeatureNames))

Scored == "risk_score" \in df.columns

\* the probability the fitted classifier gives deal i
ProbOf(i) == PredictProba(model, ScalerTransform(scaler, RowOf(InputFeature, i)))

\* C1: for every risk_score in [0,100] at one decimal the category is Low on
\* [0,33], Medium on (33,66] and High on (66,100], and is decided by the
\* score alone.
C1_CategoryPartition ==
    probe.scored =>
        /\ probe.risk_score \in 0..1000
        /\ probe.risk_category =
              IF probe.risk_score <= 330 THEN "Low"
              ELSE IF probe.risk_score <= 660 THEN "Medium"
              ELSE "High"

\* C1 witness: the score 66.0 has been categorised, and is Medium
C1_Witness ==
    probe.scored /\ probe.risk_score = 660 /\ probe.risk_category = "Medium"

\* C2: after score_deals every deal's risk_score is 100 times its predicted
\* loss probability rounded to one decimal (the nearest tenth, a tie going
\* to the even tenth), and lies in [0,100].
C2_ScoreIsRoundedProbability ==
    Scored =>
        \A i \in DOMAIN csv :
            LET t == df.risk_score[i]
                exact == 1000 * ProbOf(i)
            IN /\ t \in 0..1000
               /\ 2 * Abs(t * ProbDen - exact) <= ProbDen
               /\ 2 * Abs(t * ProbDen - exact) = ProbDen => t % 2 = 0

\* C2 witness: a deal's score was rounded up to the nearest tenth, as 0.9235
\* is scored 92.4, where cutting off after one decimal would give 92.3
C2_Witness ==
    /\ Scored
    /\ \E i \in DOMAIN csv :
          /\ 1000 * ProbOf(i) < df.risk_score[i] * ProbDen
          /\ 2 * 1000 * ProbOf(i) > (2 * df.risk_score[i] - 1) * ProbDen

\* the phases of the pipeline, in the order main() runs them
Phases == <<"load_and_prepare_data", "engineer_features", "train_model",
            "score_deals", "export_results">>

\* every phase before the i-th has completed
EarlierCompleted(i) == \A j \in 1..(i - 1) : Phases[j] \in completed

\* main() has run a prefix of its chain, each method once, and all of it when done
MainRunsChainInOrder ==
    caller = "main" =>
        /\ calls = SubSeq(Methods, 1, Len(calls))
        /\ pc \in Range(Methods) => pc = Methods[Len(calls) + 1]
        /\ pc = "done" => calls = Methods

\* the scaler and the classifier have been fitted by some train_model call
FittedOnce == lbfgs_result # <<>>

\* C3 as stated: along any sequence of calls a phase has completed only if
\* every earlier phase of load, engineer features, train_model, score, export
\* has completed, and main() runs the phases once each in that order.
C3_PhasesCompleteInOrder ==
    /\ \A i \in DOMAIN Phases : Phases[i] \in completed => EarlierCompleted(i)
    /\ MainRunsChainInOrder

\* C4 as stated: once the pipeline has failed fatally, neither
\* outputs/risk_scores.csv nor outputs/risk_scoring_report.md exists, and a
\* scored-output file never has fewer rows than the input.
C4_NoOutputAfterFatalError ==
    /\ (caller = "main" /\ pc = "failed") => csv_file = <<>> /\ ~report_file
    /\ csv_file # <<>> => DOMAIN csv_file[1] = DOMAIN csv

\* C5: whenever the scaler is fitted, its statistics are those of the
\* training rows of the current partition, so neither the evaluation transform
\* nor the scoring transform has changed them.
C5_ScalerFittedOnTrainOnly ==
    scaler.fitted => split.ok /\ scaler = ScalerFit(InputFeature, split.train)

\* C5 witness: the corpus has been scored and the scaler's mean is not the
\* mean of the whole corpus
C5_Witness ==
    /\ Scored
    /\ scaler.fitted
    /\ \E k \in DOMAIN FeatureNames :
          scaler.sum[k] * Len(csv) # SumOver(InputFeature[k], DOMAIN csv) * scaler.n

\* C6 as stated: a score_deals call on an unfitted scaler and a train_model
\* call on an already fitted scaler both end in an error.
C6_ScalerMisuseRaises ==
    [][/\ (score_deals /\ ~scaler.fitted) => raised'
       /\ (train_model /\ scaler.fitted) => raised']_vars

\* the Lost deals among the rows S of the input
LostIn(S) == Cardinality({i \in S : csv[i].outcome = "Lost"})

\* the partition's index sets are disjoint and cover all rows of the input
DisjointCover == split.train \cap split.test = {} /\ split.train \cup split.test = DOMAIN csv

\* the spec's example: of 100 deals with 20 Lost, 20 go to the evaluation set
\* and 4 of them are Lost (80 go to training, 16 of them Lost)
HundredDealExample ==
    /\ NTest(100) = 20
    /\ ApproximateMode(<<80, 20>>, NTrain(100), 0).counts = <<64, 16>>

\* C7 as stated: the partition's sets are disjoint, cover all N deals, and the
\* evaluation set has round(0.2 * N) records (0.2 * N is never a tie, so the
\* nearest integer t is the one with |5t - N| <= 2).
C7_EvalSizeIsRounded ==
    /\ split.ok =>
          /\ DisjointCover
          /\ Abs(5 * Cardinality(split.test) - Len(csv)) <= 2
    /\ HundredDealExample

\* C7 as amended: whenever train_model partitions N deals, the sets are
\* disjoint, cover all N deals, and the evaluation set has ceil(0.2 * N)
\* records: the least t with 5t >= N (20 of 100, with 4 of the 20 Lost deals).
C7_EvalSizeIsCeiling ==
    /\ split.ok =>
          /\ DisjointCover
          /\ 5 * Cardinality(split.test) >= Len(csv)
          /\ 5 * (Cardinality(split.test) - 1) < Len(csv)
    /\ HundredDealExample

\* C7 witness: 6 deals have been partitioned, 2 of them into the evaluation
\* set, where round(0.2 * 6) is 1
C7_Witness == split.ok /\ Len(csv) = 6 /\ Cardinality(split.test) = 2

\* C8: in any partition the Lost fractions of the training and the evaluation
\* set differ by at most 1/min(|train|, |evaluation|); cross-multiplied,
\* |lost_tr * n_te - lost_te * n_tr| * min(n_tr, n_te) <= n_tr * n_te.
C8_StratifiedWithinTolerance ==
    split.ok =>
        LET n_tr == Cardinality(split.train)
            n_te == Cardinality(split.test)
        IN /\ n_tr > 0
           /\ n_te > 0
           /\ Abs(LostIn(split.train) * n_te - LostIn(split.test) * n_tr) * Min(n_tr, n_te)
                  <= n_tr * n_te

\* C8 witness: a partition of deals of both outcomes whose evaluation set has
\* no Lost deal, the largest difference the rounding leaves with these inputs
C8_Witness ==
    /\ split.ok
    /\ LostIn(split.train) > 0
    /\ LostIn(split.test) = 0
    /\ Cardinality(split.test) > 1

\* C9: a train_model call that partitions the data again gets the partition
\* the call before it got.
C9_PartitionDeterministic == prev_split.ok => prev_split = split

\* C9 witness: the data have been partitioned twice, the second time on an
\* engine that had been fitted and had scored the corpus, and a tie between
\* the classes was broken by the random stream
C9_Witness ==
    /\ prev_split.ok
    /\ "score_deals" \in completed
    /\ Len(csv) = 8
    /\ LostIn(DOMAIN csv) = 2

\* the categories a scored deal can get
Categories == {"Low", "Medium", "High"}

\* the rows of a table that carry the category c
CountOf(rows, c) == Cardinality({i \in DOMAIN rows : rows[i].risk_category = c})

\* the scored table: every input deal has one risk_score and one
\* risk_category among Low, Medium, High, in the input's order
ScoredTableComplete ==
    /\ DOMAIN df.risk_score = DOMAIN csv
    /\ DOMAIN df.risk_category = DOMAIN csv
    /\ \A i \in DOMAIN csv :
          /\ df.risk_score[i] \in 0..Bin3
          /\ df.risk_category[i] \in Categories
          /\ df.outcome[i] = csv[i].outcome
          /\ df.sales_cycle_days[i] = csv[i].sales_cycle_days

\* the exported table has one row per input deal, in order, and its Low,
\* Medium and High counts sum to the number of deals
ExportedTableComplete ==
    /\ csv_file # <<>>
    /\ LET rows == csv_file[1]
       IN /\ DOMAIN rows = DOMAIN csv
          /\ \A i \in DOMAIN rows :
                /\ rows[i].deal_id = i
                /\ rows[i].outcome = csv[i].outcome
                /\ rows[i].sales_cycle_days = csv[i].sales_cycle_days
                /\ rows[i].risk_score = df.risk_score[i]
                /\ rows[i].risk_category = df.risk_category[i]
          /\ CountOf(rows, "Low") + CountOf(rows, "Medium") + CountOf(rows, "High")
                 = Len(csv)

\* C10: after score_deals every input deal has one risk_score and one
\* risk_category among Low, Medium, High, in the input's order; the table an
\* export_results call has exported when it returns has one row per input
\* deal, in order, and its Low, Medium and High counts sum to the number of
\* deals.
C10_OneScorePerDeal ==
    [][/\ Scored' => ScoredTableComplete'
       /\ (export_results /\ ~raised') => ExportedTableComplete']_vars

\* C10 witness: a scored table of 8 deals has been exported with deals in
\* more than one category, one of them High
C10_Witness ==
    /\ ExportedTableComplete
    /\ "export_results" \in completed
    /\ Len(csv) = 8
    /\ CountOf(csv_file[1], "High") > 0
    /\ CountOf(csv_file[1], "High") < 8

\* the columns engineer_features, load_and_prepare_data and score_deals add
DerivedColumns == Range(FeatureNames) \cup {"risk_outcome", "risk_score", "risk_category"}

\* C11 as stated: when the file lacks a required column or holds a date that
\* does not parse, load_and_prepare_data never completes and no derived
\* column is added to the data.
C11_SchemaErrorAbortsInLoad ==
    schema # FullSchema =>
        /\ "load_and_prepare_data" \notin completed
        /\ df.columns \cap DerivedColumns = {}

\* C12 as stated: the stage code of Demo, Qualified, Proposal, Negotiation,
\* Closed is 1, 2, 3, 4, 5, and neither train_model nor score_deals completes
\* on a file that holds a deal whose stage is none of the five.
C12_UnmappedStageIsAnError ==
    /\ \A k \in DOMAIN Stages : StageCode(Stages[k]) = k
    /\ completed \cap {"train_model", "score_deals"} # {} =>
           \A i \in DOMAIN csv : csv[i].deal_stage \in Range(Stages)

\* C13 as stated: when the fit has not met its tolerance in fewer than
\* max_iter iterations (it stops at the cap), neither train_model nor
\* score_deals ever completes.
C13_NonConvergenceFails ==
    lbfgs_need >= MaxIter => completed \cap {"train_model", "score_deals"} = {}

\* the feature columns of the input file as they are before any fillna:
\* those the data holds when it has them, else those engineer_features makes
\* of the file
RawFeature ==
    IF Range(FeatureNames) \subseteq df.columns
    THEN SeqOf(LAMBDA k : df[FeatureNames[k]], Len(FeatureNames))
    ELSE LET d == InputFrame
         IN SeqOf(LAMBDA k : FeatureColumn(d, FeatureNames[k]), Len(FeatureNames))

ZeroFilled(v) == IF v = NaN THEN 0 ELSE v

\* C14: the scaler is fitted on the training rows with every missing feature
\* value counted as 0, every deal is scored from its features with every
\* missing value taken as 0, and an exception raised after the features were
\* engineered is raised after the scaler and the classifier were fitted, so
\* never by a missing value.
C14_MissingValuesBecomeZero ==
    \E F \in {RawFeature} :
        /\ scaler.fitted =>
               \A k \in DOMAIN F :
                   scaler.sum[k] =
                       SumOver([i \in split.train |-> ZeroFilled(F[k][i])], split.train)
        /\ Scored =>
               \A i \in DOMAIN csv :
                   df.risk_score[i] =
                       RiskScore(PredictProba(model,
                           ScalerTransform(scaler, [k \in DOMAIN F |-> ZeroFilled(F[k][i])])))
        /\ (caller # "free" /\ pc = "failed" /\ "engineer_features" \in completed) =>
               scaler.fitted /\ model.state = "fitted"

\* C14 witness: a file whose first deal has no sales cycle and an unmapped
\* stage was trained on with that deal among the training rows, and scored
C14_Witness ==
    /\ Scored
    /\ "train_model" \in completed
    /\ 1 \in split.train
    /\ df.sales_cycle_days_norm[1] = NaN
    /\ df.deal_stage_encoded[1] = NaN

\* the group win-rate columns and the key column each is grouped by
WinRateKeys ==
    {[col |-> "industry_win_rate",    key |-> "industry"],
     [col |-> "region_win_rate",      key |-> "region"],
     [col |-> "product_win_rate",     key |-> "product_type"],
     [col |-> "lead_source_win_rate", key |-> "lead_source"],
     [col |-> "rep_win_rate",         key |-> "sales_rep_id"]}

\* the position of a feature column in the feature vector
PositionOf(c) == CHOOSE k \in DOMAIN FeatureNames : FeatureNames[k] = c

\* the deals of the input file that share deal i's value of a key
SameKey(key, i) == {j \in DOMAIN csv : csv[j][key] = csv[i][key]}

\* C15: each group win rate of each deal is the share of Won deals among all
\* deals of the file with the deal's value of the key (in RateUnit-ths: the
\* rate times the group size is the number of Won deals), lies in [0,1], is 0
\* or 1 for a group of one, is 0 for a group of one Lost deal, and is the
\* value the feature vector holds.
C15_GroupWinRate ==
    \A w \in WinRateKeys :
        w.col \in df.columns =>
            \A i \in DOMAIN csv :
                LET G == SameKey(w.key, i)
                    v == df[w.col][i]
                IN /\ v * Cardinality(G) = (Cardinality(G) - LostIn(G)) * RateUnit
                   /\ v \in 0..RateUnit
                   /\ Cardinality(G) = 1 => v \in {0, RateUnit}
                   /\ (Cardinality(G) = 1 /\ LostIn(G) = 1) => v = 0
                   /\ feature_names # <<>> =>
                          FeatureMatrix(df, feature_names)[PositionOf(w.col)][i] = v

\* C15 witness: the corpus was scored with a deal that is alone in its
\* industry and Lost, rate 0, and with a region whose rate is a proper fraction
C15_Witness ==
    /\ Scored
    /\ \E i \in DOMAIN csv :
          /\ SameKey("industry", i) = {i}
          /\ csv[i].outcome = "Lost"
          /\ df.industry_win_rate[i] = 0
    /\ \E i \in DOMAIN csv :
          /\ df.region_win_rate[i] > 0
          /\ df.region_win_rate[i] < RateUnit

\* the deals of the input file in deal i's segment: same industry and same
\* product type
SegmentOf(i) == SameKey("industry", i) \cap SameKey("product_type", i)

\* the k-th smallest amount among the deals S
KthAmount(S, k) ==
    CHOOSE x \in {csv[j].deal_amount : j \in S} :
        /\ Cardinality({j \in S : csv[j].deal_amount < x}) < k
        /\ k <= Cardinality({j \in S : csv[j].deal_amount <= x})

\* C16: the segment ratio of each deal is its amount over the median amount
\* of the deals of its (industry, product type) segment (in RatioUnit-ths:
\* the ratio times the two middle amounts is twice the amount), is exactly 1
\* for a deal alone in its segment, and is the value the feature vector holds.
C16_AmountVsSegment ==
    "deal_size_vs_segment" \in df.columns =>
        \A i \in DOMAIN csv :
            LET S == SegmentOf(i)
                n == Cardinality(S)
                v == df.deal_size_vs_segment[i]
            IN /\ v * (KthAmount(S, (n + 1) \div 2) + KthAmount(S, (n + 2) \div 2))
                     = 2 * csv[i].deal_amount * RatioUnit
               /\ n = 1 => v = RatioUnit
               /\ feature_names # <<>> =>
                      FeatureMatrix(df, feature_names)[PositionOf("deal_size_vs_segment")][i] = v

\* C16 witness: the corpus was scored with a deal alone in its segment, ratio
\* 1, and a deal below the median of a segment of several
C16_Witness ==
    /\ Scored
    /\ \E i \in DOMAIN csv : SegmentOf(i) = {i} /\ df.deal_size_vs_segment[i] = RatioUnit
    /\ \E i \in DOMAIN csv : SegmentOf(i) # {i} /\ df.deal_size_vs_segment[i] < RatioUnit

\* C17: a score_deals call that returns on data that is already scored
\* leaves every column of the data, risk_score and risk_category included,
\* the scaler and the classifier as they were.
C17_ScoringIdempotent ==
    [][(Scored /\ ~raised' /\ score_deals) =>
           (df' = df /\ scaler' = scaler /\ model' = model)]_vars

\* C17 witness: the script that scores twice has made its second score_deals
\* call, on a corpus with scores in more than one category
C17_Witness ==
    /\ caller = "rescore"
    /\ Len(calls) >= 5
    /\ calls[4] = "score_deals"
    /\ calls[5] = "score_deals"
    /\ Cardinality(Range(df.risk_category)) > 1

\* the fields of the frame other than its column list and the two score
\* columns
KeptFields == DOMAIN NoDf \ {"columns", "risk_score", "risk_category"}

\* C18: every step either is no train_model, score_deals,
\* generate_actionable_insights or export_results call, or changes no feature
\* column, no label and no other column of the data; the only change such a
\* call makes to the data is score_deals adding risk_score and risk_category,
\* made only when a train_model call has fitted the classifier.
C18_FeaturesImmutable ==
    [][\/ /\ \A c \in KeptFields : df'[c] = df[c]
          /\ df'.columns \ df.columns \subseteq {"risk_score", "risk_category"}
          /\ df' # df => score_deals /\ ~raised' /\ FittedOnce /\ model.state = "fitted"
       \/ ~(train_model \/ score_deals \/ generate_actionable_insights
               \/ export_results)]_vars

\* C18 witness: a file with missing feature values was trained on, scored
\* and exported, and the missing values are still in the data
C18_Witness ==
    /\ {"train_model", "score_deals", "generate_actionable_insights", "export_results"}
           \subseteq completed
    /\ Scored
    /\ Range(FeatureNames) \subseteq df.columns
    /\ df.deal_stage_encoded[1] = NaN
    /\ df.sales_cycle_days_norm[1] = NaN

\* the order of the categories: Low < Medium < High
CategoryRank(c) == CHOOSE k \in 1..3 : <<"Low", "Medium", "High">>[k] = c

\* C19: the score of a probability is at most the score of every larger
\* probability, and its category is at most the category of every larger
\* score.
C19_ScoreMonotone ==
    probe.scored =>
        /\ \A q \in probe.p..ProbDen : probe.risk_score <= RiskScore(q)
        /\ \A t \in probe.risk_score..Bin3 :
               CategoryRank(probe.risk_category) <= CategoryRank(RiskCategory(t))

\* C19 witness: the largest probability scored 33.0 has been scored, Low; the
\* next probability scores higher and the next score is Medium
C19_Witness ==
    /\ probe.scored
    /\ probe.risk_score = Bin1
    /\ probe.risk_category = "Low"
    /\ RiskScore(probe.p + 1) > Bin1
    /\ RiskCategory(Bin1 + 1) = "Medium"

\* C20 as stated: once the scaler and the classifier are fitted, main() does
\* not stop before score_deals has run, whatever the evaluation step does;
\* and when main() has scored, train_model has returned with its metrics
\* printed.
C20_EvaluationNeverGatesScoring ==
    caller = "main" =>
        /\ (FittedOnce /\ pc = "failed") => "score_deals" \in completed
        /\ Scored => "train_model" \in completed

\* ---------------------------------------------------------------------- C21
\* sales_cycle_days below zero (an empty cell is not a number, so not below
\* zero)
NegativeCycle(v) == v # NaN /\ v < 0

\* the ways the frame could single a deal out as an anomaly: its row is
\* dropped, or a column beyond the file's and the engine's own is added
FlaggedAsAnomaly(i) ==
    \/ i \notin df.index
    \/ df.columns \ (RawColumns \cup DerivedColumns) # {}

\* C21: once engineer_features has added the cycle-length feature, the
\* feature equals sales_cycle_days deal by deal, and every deal whose
\* sales_cycle_days is negative has been flagged as a data-quality anomaly.
C21_NegativeCycleFlagged ==
    "sales_cycle_days_norm" \in df.columns =>
        \A i \in DOMAIN csv :
            /\ i \in df.index =>
                   df.sales_cycle_days_norm[i] = csv[i].sales_cycle_days
            /\ NegativeCycle(csv[i].sales_cycle_days) => FlaggedAsAnomaly(i)

\* the first half of C21 alone: the feature is sales_cycle_days unchanged
C21_CycleLengthPassThrough ==
    "sales_cycle_days_norm" \in df.columns =>
        \A i \in df.index : df.sales_cycle_days_norm[i] = csv[i].sales_cycle_days

\* a negative sales cycle went through feature engineering, training and
\* scoring, and nothing flagged the deal
C21_NegativeCycleScored ==
    /\ Scored
    /\ ~raised
    /\ \E i \in df.index : /\ NegativeCycle(df.sales_cycle_days_norm[i])
                            /\ ~FlaggedAsAnomaly(i)

\* ---------------------------------------------------------------------- C22
\* C22: for every risk_score score_deals can give, utils.categorize_risk
\* returns the category score_deals assigns, the scores 33.0 and 66.0
\* included.
C22_AlertCategoryAgrees ==
    probe.alert_category # "" => probe.alert_category = probe.risk_category

\* what holds instead: the two mappings agree on every score but 33.0 and
\* 66.0, where categorize_risk gives the next category up
C22_AgreeOffTheEdges ==
    probe.alert_category # "" =>
        IF probe.risk_score = Bin1
        THEN probe.risk_category = "Low" /\ probe.alert_category = "Medium"
        ELSE IF probe.risk_score = Bin2
        THEN probe.risk_category = "Medium" /\ probe.alert_category = "High"
        ELSE probe.alert_category = probe.risk_category

\* a deal scored 66.0 is Medium for score_deals and High for the alert
C22_EdgeDisagrees ==
    /\ probe.risk_score = Bin2
    /\ probe.risk_category = "Medium"
    /\ probe.alert_category = "High"

\* ---------------------------------------------------------------------- C23
\* the deals of the table that are on the list
Listed(rows) == {rows[k] : k \in DOMAIN rows}

\* a list of at most cap deals, each in a pipeline stage and High, in
\* non-increasing score order, that no unlisted pipeline High deal outscores
AttentionList(rows, cap) ==
    /\ Len(rows) <= cap
    /\ \A k \in DOMAIN rows :
           /\ rows[k] \in board.index
           /\ board.deal_stage[rows[k]] \in {"Demo", "Qualified", "Proposal", "Negotiation"}
           /\ board.deal_stage[rows[k]] # "Closed"
           /\ board.risk_category[rows[k]] = "High"
    /\ \A k \in 1..(Len(rows) - 1) :
           board.risk_score[rows[k]] >= board.risk_score[rows[k + 1]]
    /\ \A j \in board.index \ Listed(rows) :
           (/\ board.deal_stage[j] \in {"Demo", "Qualified", "Proposal", "Negotiation"}
            /\ board.risk_category[j] = "High")
           => \A k \in DOMAIN rows : board.risk_score[j] <= board.risk_score[rows[k]]

\* C23: every deal on the console list and in the report table of high-risk
\* deals is in a pipeline stage, never Closed, and High; each list is in
\* non-increasing risk_score order, the console list holds at most 10 deals
\* and the report table at most 15, and no unlisted pipeline High deal has a
\* strictly higher score than a listed one.
C23_HighRiskListing ==
    /\ board.printed => AttentionList(board.top_risk, 10)
    /\ board.reported => AttentionList(board.report_rows, 15)

\* C23 witness: both lists are full, 10 and 15 deals, pipeline High deals
\* are left off the report, one of them with the score of the last deal
\* listed on the console, and a Closed deal outscores a listed one
C23_Witness ==
    /\ board.printed
    /\ board.reported
    /\ Len(board.top_risk) = 10
    /\ Len(board.report_rows) = 15
    /\ \E j \in board.index \ Listed(board.report_rows) :
           /\ board.deal_stage[j] # "Closed"
           /\ board.risk_category[j] = "High"
    /\ \E j \in board.index \ Listed(board.top_risk) :
           /\ board.deal_stage[j] # "Closed"
           /\ board.risk_score[j] = board.risk_score[board.top_risk[10]]
    /\ \E j \in board.index :
           /\ board.deal_stage[j] = "Closed"
           /\ board.risk_category[j] = "High"
           /\ board.risk_score[j] > board.risk_score[board.top_risk[10]]
    /\ \E j \in board.index : board.risk_category[j] = "Medium"

====
